---- MODULE Spec2Model ----
(***************************************************************************)
(* Model of the walrus-audit-system core as state machines:                *)
(*  - access_policy::report_access (ReportAccessPolicy, SealToken,         *)
(*    AccessLog) and audit_system::audit_core (AuditConfig, AuditRecord,   *)
(*    BlobAuditHistory) over Move transactions.  Every entry function is   *)
(*    an operator computing the transaction's outcome (its abort code, 0   *)
(*    when it commits, and the objects as written); an aborting            *)
(*    transaction commits nothing.                                         *)
(*  - the session keys of seal-client (SessionKeyManager, SessionKeyStore) *)
(*    over calls of their methods and a wall clock.                        *)
(*  - the session-key and decrypt endpoints of seal-api-server.ts over     *)
(*    HTTP requests, with the outcomes of the Seal SDK, the key servers    *)
(*    and the policy lookup as inputs.                                     *)
(*  - the report id from AccessProofBuilder.addressToBytesLE to            *)
(*    bytes_to_u256, in 256-bit arithmetic.                                *)
(***************************************************************************)
EXTENDS Integers, Sequences, FiniteSets, TLC

\* ---------------------------------------------------------------- bounds
MaxTime == 1
MaxTokens == 1
MaxLog == 1
MaxAudits == 1
MaxAuditors == 2
MaxCalls == 4

\* ----------------------------------------------------------- error codes
E_POLICY_EXPIRED == 1
E_UNAUTHORIZED_ACCESS == 2
E_INVALID_ACCESS_TYPE == 3
E_NOT_POLICY_CREATOR == 4
E_POLICY_REVOKED == 5
E_TOKEN_EXPIRED == 6
E_REPORT_NOT_FOUND == 7

ACCESS_READ == 1
ACCESS_AUDIT == 2
ACCESS_ADMIN == 3

\* ------------------------------------------------------------ input sets
Addr == {"a1", "a2", "a3"}
PolicyIds == {"p1"}
CreatorInputs == {"a1"}
Times == 0..MaxTime

\* Option<T>: none is the empty vector, some(v) the one-element vector.
none == <<>>
some(v) == <<v>>
is_some(o) == Len(o) > 0
borrow(o) == o[1]

\* u8 access types a caller may pass: the three recognised ones and one more.
AccessTypeInputs == {ACCESS_READ, ACCESS_AUDIT, ACCESS_ADMIN, ACCESS_ADMIN + 1}
\* Option<u64> expiry times a caller may pass.
ExpiryInputs == {none, some(0)}
\* vector<address> arguments of create_policy (duplicates are accepted).
ListInputs == {<<>>, <<"a2", "a2">>}
\* u256 report ids a caller may pass to create_policy.
\* A u256 is held as 16 limbs of 16 bits, least significant first; u256(n) is
\* the cast of a number below 2^31 to u256.
u256(n) ==
    [i \in 1..16 |-> IF i = 1 THEN n % 65536 ELSE IF i = 2 THEN n \div 65536 ELSE 0]

ReportIdInputs == {u256(513)}
\* vector<u8> arguments of seal_approve: 0x0201 little-endian, the same with a
\* zero high byte, its byte-swap, the empty vector, and one of 33 bytes.
IdBytesInputs == {<<1, 2>>, <<1, 2, 0>>, <<2, 1>>, <<>>, [i \in 1..33 |-> 0]}

\* ------------------------------------------------------- vector helpers
contains(list, x) == \E i \in DOMAIN list : list[i] = x

push_back(list, x) == Append(list, x)

\* vector::index_of: the first index holding x (1-based here), 0 when absent.
index_of(list, x) ==
    IF contains(list, x)
    THEN CHOOSE i \in DOMAIN list : list[i] = x /\ \A j \in 1..(i - 1) : list[j] # x
    ELSE 0

\* vector::remove at index i.
remove_at(list, i) == SubSeq(list, 1, i - 1) \o SubSeq(list, i + 1, Len(list))

remove_from_list(list, target) ==
    IF contains(list, target) THEN remove_at(list, index_of(list, target)) ELSE list

\* ----------------------------------------------------------------- state
VARIABLES policies, logs, tokens, minted, now, last,
          config, audit_records, histories, calls, tx,
          managers, store, verified, requested, dateNow, call, pending,
          cleanupInterval,
          server, sealSessionKeyStore, timeMs, res,
          codec

\* The objects of access_policy::report_access and its last transaction.
policyVars == <<policies, logs, tokens, minted, now, last>>

\* The objects of audit_system::audit_core and its last transaction.
auditVars == <<config, audit_records, histories, calls, tx>>

\* The SessionKeyManager objects of seal-client, the SessionKeyStore's map,
\* the wall clock, the last call made on them and the store.verify call that
\* is suspended at its await.
sessionVars == <<managers, store, verified, requested, dateNow, call, pending,
                 cleanupInterval>>

apiVars == <<server, sealSessionKeyStore, timeMs, res>>

codecVars == <<codec>>

nonPolicyVars == <<auditVars, sessionVars, apiVars, codecVars>>

nonAuditVars == <<policyVars, sessionVars, apiVars, codecVars>>

nonSessionVars == <<policyVars, auditVars, apiVars, codecVars>>

nonApiVars == <<policyVars, auditVars, sessionVars, codecVars>>

nonCodecVars == <<policyVars, auditVars, sessionVars, apiVars>>

vars == <<policyVars, auditVars, sessionVars, apiVars, codecVars>>

\* What the last transaction was and how it ended.
Last(op, sender, target, kind, abort, ret) ==
    [op |-> op, sender |-> sender, target |-> target, kind |-> kind,
     abort |-> abort, ret |-> ret]

\* ------------------------------------------- audit_core: codes and init
E_INVALID_CHALLENGE_COUNT == 3
E_UNAUTHORIZED == 4
E_INVALID_SIGNATURE_ALGORITHM == 5

ALGO_FALCON512 == 1
ALGO_DILITHIUM2 == 2

\* The largest u16; an operation on u16 whose result leaves 0..U16_MAX aborts
\* the transaction with an arithmetic error, which is no code of the module.
U16_MAX == 65535
ARITHMETIC_ERROR == -1

\* The AuditConfig that init shares (auditor_stakes is never written).
init(sender) ==
    [admin |-> sender,
     min_challenge_count |-> 10,
     max_challenge_count |-> 100,
     challenge_interval_ms |-> 3600000,
     authorized_auditors |-> <<>>,
     total_audits |-> 0,
     total_blobs_audited |-> 0]

\* What the last audit_core transaction was: its entry function, sender,
\* abort code (0 when it committed), arguments and the events it emitted.
Tx(op, sender, abort, args, events) ==
    [op |-> op, sender |-> sender, abort |-> abort, args |-> args, events |-> events]

\* ------------------------------------------------ seal-client: last call
\* What the last call on a session key was: the method, the public key of the
\* manager it was made on, its arguments and what it returned.
Call(op, key, args, ret) == [op |-> op, key |-> key, args |-> args, ret |-> ret]

Init ==
    /\ policies = <<>>
    /\ logs = <<>>
    /\ tokens = <<>>
    /\ minted = 0
    /\ now = 0
    /\ last = Last("init", "a1", "a1", 0, 0, FALSE)
    /\ config = init("a1")
    /\ audit_records = <<>>
    /\ histories = <<>>
    /\ calls = <<>>
    /\ tx = Tx("init", "a1", 0, <<>>, <<>>)
    /\ managers = <<>>
    /\ store = {}
    /\ verified = {}
    /\ requested = <<>>
    /\ dateNow = 0
    /\ call = Call("init", "k1", <<>>, FALSE)
    /\ pending = <<>>
    /\ cleanupInterval = TRUE
    /\ server = [sealClient |-> TRUE, suiClient |-> TRUE,
                 suiContractClient |-> TRUE, accessProofBuilder |-> TRUE]
    /\ sealSessionKeyStore = <<>>
    /\ timeMs = 0
    /\ res = [op |-> "init", key |-> <<"", "">>, status |-> 0, success |-> FALSE,
              report |-> <<>>, mode |-> "",
              run |-> [lookup |-> "none", fetchKeys |-> "none", sealDecrypt |-> "none"]]
    /\ codec = [op |-> "init", address |-> <<>>, bytes |-> <<>>, threw |-> FALSE,
                abort |-> 0, value |-> u256(0)]

\* ------------------------------------------------------- create_policy
create_policy(report_blob_id, allowed_readers, allowed_auditors, expires_at_ms, sender, clock) ==
    [report_blob_id |-> report_blob_id,
     creator |-> sender,
     allowed_readers |-> allowed_readers,
     allowed_auditors |-> allowed_auditors,
     allowed_admins |-> <<sender>>,
     created_at |-> clock,
     expires_at |-> expires_at_ms,
     is_active |-> TRUE,
     revocation_reason |-> none,
     total_accesses |-> 0,
     last_accessed_at |-> none]

CreatePolicy(ids, reader_lists, auditor_lists, expiries) ==
    \E p \in ids \ DOMAIN policies, sender \in CreatorInputs, rid \in ReportIdInputs,
       rs \in reader_lists, as \in auditor_lists, e \in expiries :
        /\ policies' = (p :> create_policy(rid, rs, as, e, sender, now)) @@ policies
        /\ logs' = (p :> [policy_id |-> p, report_blob_id |-> rid, access_records |-> <<>>]) @@ logs
        /\ last' = Last("create_policy", sender, sender, 0, 0, FALSE)
        /\ UNCHANGED <<tokens, minted, now>>
        /\ UNCHANGED nonPolicyVars

\* ------------------------------------------------- assert_policy_valid
\* assert_policy_valid looking at is_active only.
assert_policy_valid_no_expiry(policy, clock) ==
    IF ~policy.is_active THEN E_POLICY_REVOKED ELSE 0

\* The abort code of assert_policy_valid, 0 when it returns.
assert_policy_valid(policy, clock) ==
    IF ~policy.is_active THEN E_POLICY_REVOKED
    ELSE IF is_some(policy.expires_at) /\ ~(clock <= borrow(policy.expires_at))
    THEN E_POLICY_EXPIRED
    ELSE 0

\* --------------------------------------------------- grant_access_token
\* The SealToken minted by grant_access_token; owner is the address the
\* object is transferred to (transfer::transfer), kept beside the fields.
SealToken(policy_id, policy, recipient, access_type, is_transferable, token_expires_at, clock) ==
    [policy_id |-> policy_id,
     report_blob_id |-> policy.report_blob_id,
     holder |-> recipient,
     access_type |-> access_type,
     expires_at |-> token_expires_at,
     is_transferable |-> is_transferable,
     owner |-> recipient]

\* grant_access_token minting the token without touching the ACL.
grant_acl_skipped(policy, recipient, access_type) == policy

\* "Also update policy ACL": push the recipient on the list of the type,
\* unless it is there already.
grant_acl(policy, recipient, access_type) ==
    IF access_type = ACCESS_READ
    THEN IF ~contains(policy.allowed_readers, recipient)
         THEN [policy EXCEPT !.allowed_readers = push_back(@, recipient)]
         ELSE policy
    ELSE IF access_type = ACCESS_AUDIT
    THEN IF ~contains(policy.allowed_auditors, recipient)
         THEN [policy EXCEPT !.allowed_auditors = push_back(@, recipient)]
         ELSE policy
    ELSE IF access_type = ACCESS_ADMIN
    THEN IF ~contains(policy.allowed_admins, recipient)
         THEN [policy EXCEPT !.allowed_admins = push_back(@, recipient)]
         ELSE policy
    ELSE policy

\* The outcome of grant_access_token: abort code, the policy as written and
\* the minted token (none when it aborts).
grant_access_token(policy_id, policy, recipient, access_type, is_transferable, token_expires_at, sender, clock) ==
    IF ~(sender = policy.creator \/ contains(policy.allowed_admins, sender))
    THEN [abort |-> E_NOT_POLICY_CREATOR, policy |-> policy, token |-> none]
    ELSE IF assert_policy_valid(policy, clock) # 0
    THEN [abort |-> assert_policy_valid(policy, clock), policy |-> policy, token |-> none]
    ELSE IF ~(access_type = ACCESS_READ \/ access_type = ACCESS_AUDIT \/ access_type = ACCESS_ADMIN)
    THEN [abort |-> E_INVALID_ACCESS_TYPE, policy |-> policy, token |-> none]
    ELSE [abort |-> 0,
          policy |-> grant_acl(policy, recipient, access_type),
          token |-> some(SealToken(policy_id, policy, recipient, access_type,
                                   is_transferable, token_expires_at, clock))]

GrantAccessToken(ids, recipients, kinds, transferables, expiries) ==
    \E p \in ids \cap DOMAIN policies, sender \in Addr, recipient \in recipients,
       k \in kinds, tr \in transferables, e \in expiries :
        LET r == grant_access_token(p, policies[p], recipient, k, tr, e, sender, now) IN
        /\ r.abort # 0 \/ minted < MaxTokens
        /\ IF r.abort = 0
           THEN /\ policies' = [policies EXCEPT ![p] = r.policy]
                /\ tokens' = ((minted + 1) :> borrow(r.token)) @@ tokens
                /\ minted' = minted + 1
           ELSE UNCHANGED <<policies, tokens, minted>>
        /\ last' = Last("grant_access_token", sender, recipient, k, r.abort, FALSE)
        /\ UNCHANGED <<logs, now>>
        /\ UNCHANGED nonPolicyVars

\* -------------------------------------------------------- revoke_policy
\* vector<u8> reasons a caller may pass.
ReasonInputs == {<<98, 97, 100>>}

\* revoke_policy recording the reason without clearing is_active.
revoke_policy_keeps_active(policy, reason, sender) ==
    IF ~(sender = policy.creator)
    THEN [abort |-> E_NOT_POLICY_CREATOR, policy |-> policy]
    ELSE [abort |-> 0, policy |-> [policy EXCEPT !.revocation_reason = some(reason)]]

\* revoke_policy open to every admin, not only to the creator.
revoke_policy_by_admin(policy, reason, sender) ==
    IF ~(sender = policy.creator \/ contains(policy.allowed_admins, sender))
    THEN [abort |-> E_NOT_POLICY_CREATOR, policy |-> policy]
    ELSE [abort |-> 0,
          policy |-> [policy EXCEPT !.is_active = FALSE,
                                    !.revocation_reason = some(reason)]]

revoke_policy(policy, reason, sender) ==
    IF ~(sender = policy.creator)
    THEN [abort |-> E_NOT_POLICY_CREATOR, policy |-> policy]
    ELSE [abort |-> 0,
          policy |-> [policy EXCEPT !.is_active = FALSE,
                                    !.revocation_reason = some(reason)]]

RevokePolicy(ids) ==
    \E p \in ids \cap DOMAIN policies, sender \in Addr, reason \in ReasonInputs :
        LET r == revoke_policy(policies[p], reason, sender) IN
        /\ policies' = [policies EXCEPT ![p] = r.policy]
        /\ last' = Last("revoke_policy", sender, sender, 0, r.abort, FALSE)
        /\ UNCHANGED <<logs, tokens, minted, now>>
        /\ UNCHANGED nonPolicyVars

\* -------------------------------------------------------- remove_access
\* remove_access without the guard that protects the creator's admin entry.
remove_access_unprotected(policy, target, access_type, sender) ==
    IF ~(sender = policy.creator \/ contains(policy.allowed_admins, sender))
    THEN [abort |-> E_NOT_POLICY_CREATOR, policy |-> policy]
    ELSE IF access_type = ACCESS_READ
    THEN [abort |-> 0,
          policy |-> [policy EXCEPT !.allowed_readers = remove_from_list(@, target)]]
    ELSE IF access_type = ACCESS_AUDIT
    THEN [abort |-> 0,
          policy |-> [policy EXCEPT !.allowed_auditors = remove_from_list(@, target)]]
    ELSE IF access_type = ACCESS_ADMIN
    THEN [abort |-> 0,
          policy |-> [policy EXCEPT !.allowed_admins = remove_from_list(@, target)]]
    ELSE [abort |-> 0, policy |-> policy]

remove_access(policy, target, access_type, sender) ==
    IF ~(sender = policy.creator \/ contains(policy.allowed_admins, sender))
    THEN [abort |-> E_NOT_POLICY_CREATOR, policy |-> policy]
    ELSE IF access_type = ACCESS_READ
    THEN [abort |-> 0,
          policy |-> [policy EXCEPT !.allowed_readers = remove_from_list(@, target)]]
    ELSE IF access_type = ACCESS_AUDIT
    THEN [abort |-> 0,
          policy |-> [policy EXCEPT !.allowed_auditors = remove_from_list(@, target)]]
    ELSE IF access_type = ACCESS_ADMIN
    THEN IF target # policy.creator
         THEN [abort |-> 0,
               policy |-> [policy EXCEPT !.allowed_admins = remove_from_list(@, target)]]
         ELSE [abort |-> 0, policy |-> policy]
    ELSE [abort |-> 0, policy |-> policy]

RemoveAccess(ids, targets) ==
    \E p \in ids \cap DOMAIN policies, sender \in Addr, target \in targets,
       k \in AccessTypeInputs :
        LET r == remove_access(policies[p], target, k, sender) IN
        /\ policies' = [policies EXCEPT ![p] = r.policy]
        /\ last' = Last("remove_access", sender, target, k, r.abort, FALSE)
        /\ UNCHANGED <<logs, tokens, minted, now>>
        /\ UNCHANGED nonPolicyVars

\* ------------------------------------------------------- transfer_token
\* transfer_token without the is_transferable assertion.
transfer_token_any(token, recipient, sender) ==
    IF ~(sender = token.holder)
    THEN [abort |-> E_UNAUTHORIZED_ACCESS, token |-> token]
    ELSE [abort |-> 0, token |-> [token EXCEPT !.owner = recipient]]

\* The outcome of transfer_token: the token fields are written back as they
\* were (holder included); only the object's owner changes.
transfer_token(token, recipient, sender) ==
    IF ~token.is_transferable
    THEN [abort |-> E_UNAUTHORIZED_ACCESS, token |-> token]
    ELSE IF ~(sender = token.holder)
    THEN [abort |-> E_UNAUTHORIZED_ACCESS, token |-> token]
    ELSE [abort |-> 0, token |-> [token EXCEPT !.owner = recipient]]

TransferToken ==
    \E t \in DOMAIN tokens, sender \in Addr, recipient \in Addr :
        LET r == transfer_token(tokens[t], recipient, sender) IN
        /\ tokens' = [tokens EXCEPT ![t] = r.token]
        /\ last' = Last("transfer_token", sender, recipient, t, r.abort, FALSE)
        /\ UNCHANGED <<policies, logs, minted, now>>
        /\ UNCHANGED nonPolicyVars

\* --------------------------------------------------- burn_expired_token
is_token_expired(token, clock) ==
    IF is_some(token.expires_at) THEN clock > borrow(token.expires_at) ELSE FALSE

\* The abort code of burn_expired_token, 0 when the token is deleted.
burn_expired_token(token, clock) ==
    IF is_some(token.expires_at) /\ ~(clock > borrow(token.expires_at))
    THEN E_TOKEN_EXPIRED
    ELSE 0

\* burn_expired_token takes no TxContext: the token is submitted by its owner.
BurnExpiredToken ==
    \E t \in DOMAIN tokens :
        LET a == burn_expired_token(tokens[t], now) IN
        /\ tokens' = IF a = 0 THEN [u \in DOMAIN tokens \ {t} |-> tokens[u]] ELSE tokens
        /\ last' = Last("burn_expired_token", tokens[t].owner, tokens[t].holder, t, a,
                        is_token_expired(tokens[t], now))
        /\ UNCHANGED <<policies, logs, minted, now>>
        /\ UNCHANGED nonPolicyVars

\* ------------------------------------- AccessProofBuilder.addressToBytesLE
\* A string is the sequence of its characters: a hex digit is its value
\* 0..15 (either case), any other character a larger number, CharX the
\* letter x.
CharX == 16

\* parseInt(pair, 16) written to a Uint8Array element: the digits up to the
\* first character that is not a hex digit, NaN (stored as 0) when there is
\* none.
parseInt16(pair) ==
    IF Len(pair) = 0 \/ pair[1] > 15 THEN 0
    ELSE IF Len(pair) = 1 \/ pair[2] > 15 THEN pair[1]
    ELSE pair[1] * 16 + pair[2]

\* Array.prototype.reverse.
reverse(bytes) == [i \in 1..Len(bytes) |-> bytes[Len(bytes) + 1 - i]]

\* addressToBytesLE keeping the big-endian order of the hex string.
addressToBytesLE_big_endian(address) ==
    LET hex == IF Len(address) >= 2 /\ address[1] = 0 /\ address[2] = CharX
               THEN SubSeq(address, 3, Len(address))
               ELSE address
    IN  IF Len(hex) # 64
        THEN [threw |-> TRUE, bytes |-> <<>>]
        ELSE [threw |-> FALSE,
              bytes |-> [i \in 1..32 |-> parseInt16(SubSeq(hex, 2 * i - 1, 2 * i))]]

\* addressToBytesLE: [threw, bytes].
addressToBytesLE(address) ==
    LET hex == IF Len(address) >= 2 /\ address[1] = 0 /\ address[2] = CharX
               THEN SubSeq(address, 3, Len(address))
               ELSE address
    IN  IF Len(hex) # 64
        THEN [threw |-> TRUE, bytes |-> <<>>]
        ELSE [threw |-> FALSE,
              bytes |-> reverse([i \in 1..32 |-> parseInt16(SubSeq(hex, 2 * i - 1, 2 * i))])]

\* The byte vectors bytes_to_u256 is applied to: every vector of up to three
\* bytes over 0, 1, 2 and 0xFF, the second example of the source, vectors of
\* 32 bytes (all zero, all 0xFF, only the last byte set) and of 33.
ByteInputs == {0, 1, 2, 255}

ByteVectorInputs ==
    UNION {[1..n -> ByteInputs] : n \in 0..3}
    \cup {<<255, 0, 0, 1>>,
          [i \in 1..32 |-> 0], [i \in 1..32 |-> 255],
          [i \in 1..32 |-> IF i = 32 THEN 1 ELSE 0],
          [i \in 1..33 |-> 0], [i \in 1..33 |-> 255]}

\* The object ids a proof is built for: 60 zero digits followed by four
\* digits over 0, 1, 2 and f, with and without the 0x prefix; 64 digits f; a
\* one followed by 63 zeros; and a string of 63 digits.
ObjectIdInputs ==
    LET tails == [1..4 -> {0, 1, 2, 15}]
        zeros == [i \in 1..60 |-> 0]
    IN  {<<0, CharX>> \o zeros \o t : t \in tails}
        \cup {zeros \o <<0, 2, 0, 1>>, zeros \o <<15, 15, 0, 1>>}
        \cup {<<0, CharX>> \o [i \in 1..64 |-> 15],
              <<0, CharX>> \o [i \in 1..64 |-> IF i = 1 THEN 1 ELSE 0],
              <<0, CharX>> \o [i \in 1..63 |-> 1]}

\* --------------------------------------------------------- seal_approve
RECURSIVE add_limbs(_, _, _, _)
\* x + y limb by limb from limb i on with the carry so far; the last element is
\* the carry out of the top limb.
add_limbs(x, y, i, carry) ==
    IF i > 16
    THEN <<carry>>
    ELSE <<(x[i] + y[i] + carry) % 65536>>
         \o add_limbs(x, y, i + 1, (x[i] + y[i] + carry) \div 65536)

\* u256 + u256: aborts when the sum does not fit 256 bits.
u256_add(x, y) ==
    LET s == add_limbs(x, y, 1, 0)
    IN  IF s[17] # 0
        THEN [abort |-> ARITHMETIC_ERROR, value |-> x]
        ELSE [abort |-> 0, value |-> SubSeq(s, 1, 16)]

\* u256 << bits for bits < 256: the bits moved past bit 255 are dropped.
u256_shl(x, bits) ==
    LET q == bits \div 16
        r == bits % 16
    IN  [i \in 1..16 |->
            (IF i - q >= 1 THEN (x[i - q] * (2 ^ r)) % 65536 ELSE 0)
            + (IF i - q - 1 >= 1 THEN (x[i - q - 1] * (2 ^ r)) \div 65536 ELSE 0)]

RECURSIVE bytes_sum_big_endian(_, _, _)
\* The loop of bytes_to_u256 taking byte 0 as the most significant.
bytes_sum_big_endian(bytes, i, result) ==
    IF i < Len(bytes)
    THEN IF i * 8 > 255
         THEN [abort |-> ARITHMETIC_ERROR, value |-> result]
         ELSE LET sum == u256_add(result,
                                  u256_shl(u256(bytes[i + 1]), (Len(bytes) - 1 - i) * 8))
              IN  IF sum.abort # 0 THEN sum ELSE bytes_sum_big_endian(bytes, i + 1, sum.value)
    ELSE [abort |-> 0, value |-> result]

RECURSIVE bytes_sum(_, _, _)
\* The loop of bytes_to_u256 from index i (0-based) on with the result so far:
\* result = result + (byte << ((i * 8) as u8)).
bytes_sum(bytes, i, result) ==
    IF i < Len(bytes)
    THEN IF i * 8 > 255
         THEN [abort |-> ARITHMETIC_ERROR, value |-> result]
         ELSE LET sum == u256_add(result, u256_shl(u256(bytes[i + 1]), i * 8))
              IN  IF sum.abort # 0 THEN sum ELSE bytes_sum(bytes, i + 1, sum.value)
    ELSE [abort |-> 0, value |-> result]

\* [abort, value] of bytes_to_u256: the length check, then the loop.
bytes_to_u256_of(bytes) ==
    IF ~(Len(bytes) <= 32)
    THEN [abort |-> E_INVALID_ACCESS_TYPE, value |-> u256(0)]
    ELSE bytes_sum(bytes, 0, u256(0))

\* The vectors the model applies bytes_to_u256 to, and bytes_to_u256 of each
\* (joined with the empty function so that TLC holds an explicit table).
TabulatedBytes ==
    IdBytesInputs \cup ByteVectorInputs
    \cup {addressToBytesLE(h).bytes : h \in ObjectIdInputs}

IdBytesDecoded == [b \in TabulatedBytes |-> bytes_to_u256_of(b)] @@ <<>>

\* [abort, value] of bytes_to_u256.
bytes_to_u256(bytes) ==
    IF bytes \in TabulatedBytes THEN IdBytesDecoded[bytes] ELSE bytes_to_u256_of(bytes)

\* seal_approve letting the creator through before the report id is compared.
seal_approve_creator_first(id_bytes, policy, sender) ==
    IF ~policy.is_active THEN E_POLICY_REVOKED
    ELSE IF sender = policy.creator THEN 0
    ELSE IF bytes_to_u256(id_bytes).abort # 0 THEN bytes_to_u256(id_bytes).abort
    ELSE IF ~(bytes_to_u256(id_bytes).value = policy.report_blob_id) THEN E_REPORT_NOT_FOUND
    ELSE IF ~(contains(policy.allowed_readers, sender)
              \/ contains(policy.allowed_auditors, sender)
              \/ contains(policy.allowed_admins, sender))
    THEN E_UNAUTHORIZED_ACCESS
    ELSE 0

\* seal_approve letting only the creator and the readers through.
seal_approve_readers_only(id_bytes, policy, sender) ==
    IF ~policy.is_active THEN E_POLICY_REVOKED
    ELSE IF bytes_to_u256(id_bytes).abort # 0 THEN bytes_to_u256(id_bytes).abort
    ELSE IF ~(bytes_to_u256(id_bytes).value = policy.report_blob_id) THEN E_REPORT_NOT_FOUND
    ELSE IF sender = policy.creator THEN 0
    ELSE IF ~contains(policy.allowed_readers, sender)
    THEN E_UNAUTHORIZED_ACCESS
    ELSE 0

\* The abort code of seal_approve, 0 when it returns.
seal_approve(id_bytes, policy, sender) ==
    IF ~policy.is_active THEN E_POLICY_REVOKED
    ELSE IF bytes_to_u256(id_bytes).abort # 0 THEN bytes_to_u256(id_bytes).abort
    ELSE IF ~(bytes_to_u256(id_bytes).value = policy.report_blob_id) THEN E_REPORT_NOT_FOUND
    ELSE IF sender = policy.creator THEN 0
    ELSE IF ~(contains(policy.allowed_readers, sender)
              \/ contains(policy.allowed_auditors, sender)
              \/ contains(policy.allowed_admins, sender))
    THEN E_UNAUTHORIZED_ACCESS
    ELSE 0

SealApprove(ids) ==
    \E p \in ids \cap DOMAIN policies, sender \in Addr, b \in IdBytesInputs :
        /\ last' = Last("seal_approve", sender, sender, 0, seal_approve(b, policies[p], sender), FALSE)
        /\ UNCHANGED <<policies, logs, tokens, minted, now>>
        /\ UNCHANGED nonPolicyVars

\* --------------------------------------------------------- check_access
\* check_access accepting membership in any list, whatever the access type.
check_access_any_list(policy, accessor, access_type, clock) ==
    IF ~policy.is_active THEN FALSE
    ELSE IF is_some(policy.expires_at) /\ clock > borrow(policy.expires_at) THEN FALSE
    ELSE IF accessor = policy.creator THEN TRUE
    ELSE contains(policy.allowed_readers, accessor)
         \/ contains(policy.allowed_auditors, accessor)
         \/ contains(policy.allowed_admins, accessor)

check_access(policy, accessor, access_type, clock) ==
    IF ~policy.is_active THEN FALSE
    ELSE IF is_some(policy.expires_at) /\ clock > borrow(policy.expires_at) THEN FALSE
    ELSE IF accessor = policy.creator THEN TRUE
    ELSE IF access_type = ACCESS_READ THEN contains(policy.allowed_readers, accessor)
    ELSE IF access_type = ACCESS_AUDIT THEN contains(policy.allowed_auditors, accessor)
    ELSE IF access_type = ACCESS_ADMIN THEN contains(policy.allowed_admins, accessor)
    ELSE FALSE

CheckAccess(ids) ==
    \E p \in ids \cap DOMAIN policies, accessor \in Addr, k \in AccessTypeInputs :
        /\ last' = Last("check_access", accessor, accessor, k, 0, check_access(policies[p], accessor, k, now))
        /\ UNCHANGED <<policies, logs, tokens, minted, now>>
        /\ UNCHANGED nonPolicyVars

\* ----------------------------------------------------------- log_access
\* Option<ID> token ids a caller may pass.
TokenIdInputs == {none}

\* The policy and the access log as log_access writes them.
\* log_access counting every attempt in the policy's statistics.
log_access_counts_all(policy, access_log, access_type, token_id, sender, clock) ==
    LET success == check_access(policy, sender, access_type, clock)
        record == [accessor |-> sender, access_type |-> access_type,
                   timestamp |-> clock, token_id |-> token_id, success |-> success]
    IN  [policy |-> [policy EXCEPT !.total_accesses = @ + 1,
                                   !.last_accessed_at = some(clock)],
         access_log |-> [access_log EXCEPT !.access_records = push_back(@, record)],
         success |-> success]

log_access(policy, access_log, access_type, token_id, sender, clock) ==
    LET success == check_access(policy, sender, access_type, clock)
        record == [accessor |-> sender, access_type |-> access_type,
                   timestamp |-> clock, token_id |-> token_id, success |-> success]
    IN  [policy |-> IF success
                    THEN [policy EXCEPT !.total_accesses = @ + 1,
                                        !.last_accessed_at = some(clock)]
                    ELSE policy,
         access_log |-> [access_log EXCEPT !.access_records = push_back(@, record)],
         success |-> success]

LogAccess(ids, kinds) ==
    \E p \in ids \cap DOMAIN policies, l \in ids \cap DOMAIN logs, sender \in Addr,
       k \in kinds, tid \in TokenIdInputs :
        LET r == log_access(policies[p], logs[l], k, tid, sender, now) IN
        /\ Len(logs[l].access_records) < MaxLog
        /\ policies' = [policies EXCEPT ![p] = r.policy]
        /\ logs' = [logs EXCEPT ![l] = r.access_log]
        /\ last' = Last("log_access", sender, sender, k, 0, r.success)
        /\ UNCHANGED <<tokens, minted, now>>
        /\ UNCHANGED nonPolicyVars

Tick ==
    /\ now < MaxTime
    /\ now' = now + 1
    /\ last' = Last("tick", "a1", "a1", 0, 0, FALSE)
    /\ UNCHANGED <<policies, logs, tokens, minted>>
    /\ UNCHANGED nonPolicyVars

\* Policy operations and the two access decisions.
Next ==
    \/ CreatePolicy(PolicyIds, ListInputs, {<<>>}, ExpiryInputs)
    \/ GrantAccessToken(PolicyIds, {"a2"}, AccessTypeInputs, {FALSE}, {none})
    \/ RevokePolicy(PolicyIds)
    \/ RemoveAccess(PolicyIds, {"a1", "a2"})
    \/ SealApprove(PolicyIds)
    \/ CheckAccess(PolicyIds)
    \/ Tick

Spec == Init /\ [][Next]_vars

\* The operations that write a policy or its access log, and seal_approve.
NextLog ==
    \/ CreatePolicy(PolicyIds, {<<>>}, {<<>>}, ExpiryInputs)
    \/ GrantAccessToken(PolicyIds, {"a2"}, {ACCESS_READ}, {FALSE}, {none})
    \/ RevokePolicy(PolicyIds)
    \/ RemoveAccess(PolicyIds, {"a2"})
    \/ SealApprove(PolicyIds)
    \/ LogAccess(PolicyIds, {ACCESS_READ})
    \/ Tick

SpecLog == Init /\ [][NextLog]_vars

\* The life of SealTokens: grant, transfer, burn, beside the ACL operations.
NextToken ==
    \/ CreatePolicy(PolicyIds, {<<>>}, {<<>>}, {none})
    \/ GrantAccessToken(PolicyIds, {"a2"}, {ACCESS_READ, ACCESS_ADMIN + 1}, BOOLEAN, ExpiryInputs)
    \/ RemoveAccess(PolicyIds, {"a2"})
    \/ TransferToken
    \/ BurnExpiredToken
    \/ Tick

SpecToken == Init /\ [][NextToken]_vars

\* Two policies, each with the AccessLog create_policy made for it, and
\* log_access called on any policy with any log.
PairedPolicyIds == {"p1", "p2"}

NextPairing ==
    \/ CreatePolicy(PairedPolicyIds, {<<>>}, {<<>>}, {none})
    \/ LogAccess(PairedPolicyIds, {ACCESS_READ})
    \/ Tick

SpecPairing == Init /\ [][NextPairing]_vars
\* ------------------------------------------------ audit_core: auditors
\* The senders of audit_core transactions: the admin a1 and a2, and the
\* addresses the admin is asked to authorize or revoke.
AuditSenders == {"a1", "a2"}
AuditorInputs == {"a2"}

\* authorize_auditor without the admin assertion.
authorize_auditor_open(cfg, auditor, sender) ==
    [abort |-> 0,
     config |-> [cfg EXCEPT !.authorized_auditors = push_back(@, auditor)]]

authorize_auditor(cfg, auditor, sender) ==
    IF ~(sender = cfg.admin)
    THEN [abort |-> E_UNAUTHORIZED, config |-> cfg]
    ELSE [abort |-> 0,
          config |-> [cfg EXCEPT !.authorized_auditors = push_back(@, auditor)]]

AuthorizeAuditor ==
    \E sender \in AuditSenders, auditor \in AuditorInputs :
        LET r == authorize_auditor(config, auditor, sender) IN
        /\ r.abort # 0 \/ Len(config.authorized_auditors) < MaxAuditors
        /\ config' = r.config
        /\ tx' = Tx("authorize_auditor", sender, r.abort, <<auditor>>, <<>>)
        /\ UNCHANGED <<audit_records, histories, calls>>
        /\ UNCHANGED nonAuditVars

revoke_auditor(cfg, auditor, sender) ==
    IF ~(sender = cfg.admin)
    THEN [abort |-> E_UNAUTHORIZED, config |-> cfg]
    ELSE IF index_of(cfg.authorized_auditors, auditor) # 0
    THEN [abort |-> 0,
          config |-> [cfg EXCEPT !.authorized_auditors =
                                    remove_at(@, index_of(@, auditor))]]
    ELSE [abort |-> 0, config |-> cfg]

RevokeAuditor ==
    \E sender \in AuditSenders, auditor \in AuditorInputs :
        LET r == revoke_auditor(config, auditor, sender) IN
        /\ config' = r.config
        /\ tx' = Tx("revoke_auditor", sender, r.abort, <<auditor>>, <<>>)
        /\ UNCHANGED <<audit_records, histories, calls>>
        /\ UNCHANGED nonAuditVars

\* The query of the authorization list.
is_auditor_authorized(cfg, auditor) == contains(cfg.authorized_auditors, auditor)

\* ------------------------------------------ audit_core: audit parameters
\* <<min_challenges, max_challenges, interval_ms>> a caller may pass.
ParamInputs == {<<0, 100, 60000>>, <<20, 10, 60000>>, <<20, 100, 60000>>}

update_audit_params(cfg, min_challenges, max_challenges, interval_ms, sender) ==
    IF ~(sender = cfg.admin)
    THEN [abort |-> E_UNAUTHORIZED, config |-> cfg, events |-> <<>>]
    ELSE IF ~(min_challenges > 0 /\ max_challenges >= min_challenges)
    THEN [abort |-> E_INVALID_CHALLENGE_COUNT, config |-> cfg, events |-> <<>>]
    ELSE [abort |-> 0,
          config |-> [cfg EXCEPT !.min_challenge_count = min_challenges,
                                 !.max_challenge_count = max_challenges,
                                 !.challenge_interval_ms = interval_ms],
          events |-> <<[type |-> "AuditConfigUpdated",
                        admin |-> cfg.admin,
                        min_challenge_count |-> min_challenges,
                        max_challenge_count |-> max_challenges]>>]

UpdateAuditParams(params) ==
    \E sender \in AuditSenders, ps \in params :
        LET r == update_audit_params(config, ps[1], ps[2], ps[3], sender) IN
        /\ config' = r.config
        /\ tx' = Tx("update_audit_params", sender, r.abort, ps, r.events)
        /\ UNCHANGED <<audit_records, histories, calls>>
        /\ UNCHANGED nonAuditVars

\* ------------------------------------------ audit_core: submit a record
\* Arguments an auditor may pass to submit_audit_record.
BlobIdInputs == {7}
EpochInputs == {1, 2}
TotalInputs == {9, 10, 20, 101}
SuccessInputs == {9, 10, 18, 19, 21}
AlgorithmInputs == {ALGO_FALCON512, ALGO_DILITHIUM2 + 1}

\* successful_verifications >= (total_challenges * 95 / 100), in u16.
is_valid_threshold(total_challenges, successful_verifications) ==
    successful_verifications >= ((total_challenges * 95) \div 100)

\* The events of submit_audit_record with the alert on valid records.
emit_events_alert_on_valid(is_valid, created, alert) ==
    IF is_valid THEN <<created, alert>> ELSE <<created>>

\* The events of a committed submit_audit_record, in the order emitted.
emit_events(is_valid, created, alert) ==
    IF is_valid THEN <<created>> ELSE <<created, alert>>

\* submit_audit_record checking the algorithm before the challenge count.
submit_audit_record_algorithm_first(cfg, blob_id, challenge_epoch, total_challenges, successful_verifications, pqc_algorithm, sender, clock) ==
    LET rejected(code) == [abort |-> code, config |-> cfg, record |-> none, events |-> <<>>]
        failed_verifications == total_challenges - successful_verifications
        is_valid == is_valid_threshold(total_challenges, successful_verifications)
        created == [type |-> "AuditCreated",
                    blob_id |-> blob_id,
                    auditor |-> sender,
                    challenge_epoch |-> challenge_epoch,
                    total_challenges |-> total_challenges,
                    is_valid |-> is_valid]
        alert == [type |-> "BlobAuditFailed",
                  blob_id |-> blob_id,
                  auditor |-> sender,
                  challenge_epoch |-> challenge_epoch,
                  failed_verifications |-> failed_verifications,
                  total_challenges |-> total_challenges,
                  failure_reason |-> "Success rate below 95%"]
    IN  IF ~contains(cfg.authorized_auditors, sender)
        THEN rejected(E_UNAUTHORIZED)
        ELSE IF ~(pqc_algorithm = ALGO_FALCON512 \/ pqc_algorithm = ALGO_DILITHIUM2)
        THEN rejected(E_INVALID_SIGNATURE_ALGORITHM)
        ELSE IF ~(total_challenges >= cfg.min_challenge_count
                  /\ total_challenges <= cfg.max_challenge_count)
        THEN rejected(E_INVALID_CHALLENGE_COUNT)
        ELSE IF failed_verifications < 0 \/ total_challenges * 95 > U16_MAX
        THEN rejected(ARITHMETIC_ERROR)
        ELSE [abort |-> 0,
              config |-> [cfg EXCEPT !.total_audits = @ + 1],
              record |-> some([blob_id |-> blob_id,
                               auditor |-> sender,
                               challenge_epoch |-> challenge_epoch,
                               audit_timestamp |-> clock,
                               total_challenges |-> total_challenges,
                               successful_verifications |-> successful_verifications,
                               failed_verifications |-> failed_verifications,
                               pqc_algorithm |-> pqc_algorithm,
                               is_valid |-> is_valid,
                               failure_reason |-> none]),
              events |-> emit_events(is_valid, created, alert)]

\* submit_audit_record with a subtraction that saturates at zero.
submit_audit_record_saturating(cfg, blob_id, challenge_epoch, total_challenges, successful_verifications, pqc_algorithm, sender, clock) ==
    LET rejected(code) == [abort |-> code, config |-> cfg, record |-> none, events |-> <<>>]
        failed_verifications == IF successful_verifications > total_challenges
                                THEN 0
                                ELSE total_challenges - successful_verifications
        is_valid == is_valid_threshold(total_challenges, successful_verifications)
        created == [type |-> "AuditCreated",
                    blob_id |-> blob_id,
                    auditor |-> sender,
                    challenge_epoch |-> challenge_epoch,
                    total_challenges |-> total_challenges,
                    is_valid |-> is_valid]
        alert == [type |-> "BlobAuditFailed",
                  blob_id |-> blob_id,
                  auditor |-> sender,
                  challenge_epoch |-> challenge_epoch,
                  failed_verifications |-> failed_verifications,
                  total_challenges |-> total_challenges,
                  failure_reason |-> "Success rate below 95%"]
    IN  IF ~contains(cfg.authorized_auditors, sender)
        THEN rejected(E_UNAUTHORIZED)
        ELSE IF ~(total_challenges >= cfg.min_challenge_count
                  /\ total_challenges <= cfg.max_challenge_count)
        THEN rejected(E_INVALID_CHALLENGE_COUNT)
        ELSE IF ~(pqc_algorithm = ALGO_FALCON512 \/ pqc_algorithm = ALGO_DILITHIUM2)
        THEN rejected(E_INVALID_SIGNATURE_ALGORITHM)
        ELSE IF total_challenges * 95 > U16_MAX
        THEN rejected(ARITHMETIC_ERROR)
        ELSE [abort |-> 0,
              config |-> [cfg EXCEPT !.total_audits = @ + 1],
              record |-> some([blob_id |-> blob_id,
                               auditor |-> sender,
                               challenge_epoch |-> challenge_epoch,
                               audit_timestamp |-> clock,
                               total_challenges |-> total_challenges,
                               successful_verifications |-> successful_verifications,
                               failed_verifications |-> failed_verifications,
                               pqc_algorithm |-> pqc_algorithm,
                               is_valid |-> is_valid,
                               failure_reason |-> none]),
              events |-> emit_events(is_valid, created, alert)]

\* The outcome of submit_audit_record: abort code, the config as written, the
\* AuditRecord it shares (none when it aborts) and the events it emits.
submit_audit_record(cfg, blob_id, challenge_epoch, total_challenges, successful_verifications, pqc_algorithm, sender, clock) ==
    LET rejected(code) == [abort |-> code, config |-> cfg, record |-> none, events |-> <<>>]
        failed_verifications == total_challenges - successful_verifications
        is_valid == is_valid_threshold(total_challenges, successful_verifications)
        created == [type |-> "AuditCreated",
                    blob_id |-> blob_id,
                    auditor |-> sender,
                    challenge_epoch |-> challenge_epoch,
                    total_challenges |-> total_challenges,
                    is_valid |-> is_valid]
        alert == [type |-> "BlobAuditFailed",
                  blob_id |-> blob_id,
                  auditor |-> sender,
                  challenge_epoch |-> challenge_epoch,
                  failed_verifications |-> failed_verifications,
                  total_challenges |-> total_challenges,
                  failure_reason |-> "Success rate below 95%"]
    IN  IF ~contains(cfg.authorized_auditors, sender)
        THEN rejected(E_UNAUTHORIZED)
        ELSE IF ~(total_challenges >= cfg.min_challenge_count
                  /\ total_challenges <= cfg.max_challenge_count)
        THEN rejected(E_INVALID_CHALLENGE_COUNT)
        ELSE IF ~(pqc_algorithm = ALGO_FALCON512 \/ pqc_algorithm = ALGO_DILITHIUM2)
        THEN rejected(E_INVALID_SIGNATURE_ALGORITHM)
        ELSE IF failed_verifications < 0 \/ total_challenges * 95 > U16_MAX
        THEN rejected(ARITHMETIC_ERROR)
        ELSE [abort |-> 0,
              config |-> [cfg EXCEPT !.total_audits = @ + 1],
              record |-> some([blob_id |-> blob_id,
                               auditor |-> sender,
                               challenge_epoch |-> challenge_epoch,
                               audit_timestamp |-> clock,
                               total_challenges |-> total_challenges,
                               successful_verifications |-> successful_verifications,
                               failed_verifications |-> failed_verifications,
                               pqc_algorithm |-> pqc_algorithm,
                               is_valid |-> is_valid,
                               failure_reason |-> none]),
              events |-> emit_events(is_valid, created, alert)]

SubmitAuditRecord(epochs, totals, successes, algorithms) ==
    \E sender \in AuditSenders, b \in BlobIdInputs, e \in epochs, t \in totals,
       sv \in successes, a \in algorithms :
        LET r == submit_audit_record(config, b, e, t, sv, a, sender, now) IN
        /\ r.abort # 0 \/ Len(audit_records) < MaxAudits
        /\ config' = r.config
        /\ audit_records' = IF r.abort = 0
                            THEN Append(audit_records, borrow(r.record))
                            ELSE audit_records
        /\ tx' = Tx("submit_audit_record", sender, r.abort, <<t, sv, a>>, r.events)
        /\ UNCHANGED <<histories, calls>>
        /\ UNCHANGED nonAuditVars

\* ------------------------------------------ audit_core: blob audit history
HistoryIds == {"h1"}
RecordIdInputs == {1}

create_blob_audit_history(blob_id) ==
    [blob_id |-> blob_id,
     audit_records |-> <<>>,
     last_audit_epoch |-> 0,
     total_audits |-> 0,
     consecutive_failures |-> 0]

\* calls keeps, per history, the arguments of every update_blob_audit_history
\* made on it and the consecutive_failures each one left.
CreateBlobAuditHistory ==
    \E h \in HistoryIds \ DOMAIN histories, b \in BlobIdInputs :
        /\ histories' = (h :> create_blob_audit_history(b)) @@ histories
        /\ calls' = (h :> <<>>) @@ calls
        /\ UNCHANGED <<config, audit_records, tx>>
        /\ UNCHANGED nonAuditVars

\* update_blob_audit_history keeping the failure count on a valid audit.
update_blob_audit_history_no_reset(history, audit_record_id, challenge_epoch, is_valid) ==
    [history EXCEPT !.audit_records = push_back(@, audit_record_id),
                    !.last_audit_epoch = challenge_epoch,
                    !.total_audits = @ + 1,
                    !.consecutive_failures = IF is_valid THEN @ ELSE @ + 1]

update_blob_audit_history(history, audit_record_id, challenge_epoch, is_valid) ==
    [history EXCEPT !.audit_records = push_back(@, audit_record_id),
                    !.last_audit_epoch = challenge_epoch,
                    !.total_audits = @ + 1,
                    !.consecutive_failures = IF is_valid THEN 0 ELSE @ + 1]

UpdateBlobAuditHistory ==
    \E h \in DOMAIN histories, id \in RecordIdInputs, e \in EpochInputs, v \in BOOLEAN :
        LET r == update_blob_audit_history(histories[h], id, e, v) IN
        /\ Len(calls[h]) < MaxCalls
        /\ histories' = [histories EXCEPT ![h] = r]
        /\ calls' = [calls EXCEPT ![h] = Append(@, [challenge_epoch |-> e,
                                                    is_valid |-> v,
                                                    consecutive_failures |-> r.consecutive_failures])]
        /\ UNCHANGED <<config, audit_records, tx>>
        /\ UNCHANGED nonAuditVars

\* The AuditConfig, its auditors and the records they submit.
NextAudit ==
    \/ AuthorizeAuditor
    \/ RevokeAuditor
    \/ UpdateAuditParams(ParamInputs)
    \/ SubmitAuditRecord({1}, TotalInputs, SuccessInputs, AlgorithmInputs)

SpecAudit == Init /\ [][NextAudit]_vars

\* The challenge counts near the top of u16: parameters the admin may set,
\* and the totals and successes an auditor may then submit.
WideParamInputs == {<<1, 689, 60000>>, <<690, 700, 60000>>, <<10, 65535, 60000>>}
WideTotalInputs == {689, 690, 65535}
WideSuccessInputs == {0, 689, 690}

NextParams ==
    \/ AuthorizeAuditor
    \/ UpdateAuditParams(WideParamInputs)
    \/ SubmitAuditRecord({1}, WideTotalInputs, WideSuccessInputs, {ALGO_FALCON512})

SpecParams == Init /\ [][NextParams]_vars

\* One BlobAuditHistory and the updates made on it.
NextHistory ==
    \/ CreateBlobAuditHistory
    \/ UpdateBlobAuditHistory

SpecHistory == Init /\ [][NextHistory]_vars

\* ------------------------------------------ seal-client: SessionKeyManager
\* Public keys (as Sui addresses) a fresh Ed25519Keypair may have, the
\* requesters, their packages and the ttlMin a SessionKeyConfig may carry
\* (none when the field is omitted).
PublicKeys == {"k1", "k2"}
RequesterInputs == {"a1"}
PackageInputs == {"pkg"}
TtlInputs == {none, some(60), some(0)}

\* Instants of the wall clock, in minutes, and as Date.now() reports them.
MinuteInputs == {0, 1, 59, 60, 61, 1440, 1441}
InstantsMs == {m * 60000 : m \in MinuteInputs}

Ed25519Keypair(publicKey) == [publicKey |-> publicKey, secretKey |-> <<"secret", publicKey>>]

\* new SessionKeyManager(config), given the keypair generated and Date.now().
\* config.ttlMin || 1440 takes 1440 for an omitted ttlMin and for 0.
SessionKeyManager(cfg, keypair, date_now) ==
    LET ttlMin == IF is_some(cfg.ttlMin) /\ borrow(cfg.ttlMin) # 0
                  THEN borrow(cfg.ttlMin)
                  ELSE 1440
    IN  [keypair |-> some(keypair),
         createdAt |-> date_now,
         expiresAt |-> date_now + ttlMin * 60 * 1000,
         address |-> cfg.address,
         packageId |-> cfg.packageId]

\* The message the wallet signs, as the fields the template string joins.
getSignMessage(m) ==
    [packageId |-> m.packageId,
     ttlMin |-> (m.expiresAt - m.createdAt) \div 60000,
     createdAt |-> m.createdAt,
     publicKey |-> borrow(m.keypair).publicKey]

getSessionKeyInfo(m) ==
    [message |-> getSignMessage(m),
     publicKey |-> borrow(m.keypair).publicKey,
     expiresAt |-> m.expiresAt]

\* A wallet signature: who signed which message, or bytes that do not parse.
Signature(wellFormed, signer, message) ==
    [wellFormed |-> wellFormed, signer |-> signer, message |-> message]

\* verifyPersonalMessageSignature of @mysten/sui: the signer's public key when
\* the signature parses and is over the message, an exception otherwise.
verifyPersonalMessageSignature(message, signature) ==
    IF signature.wellFormed /\ signature.message = message
    THEN [threw |-> FALSE, address |-> signature.signer]
    ELSE [threw |-> TRUE, address |-> signature.signer]

\* verifySignature without the comparison of the claimed address.
verifySignature_any_claimant(m, signature, address) ==
    IF ~is_some(m.keypair)
    THEN FALSE
    ELSE LET publicKey == verifyPersonalMessageSignature(getSignMessage(m), signature)
         IN  IF publicKey.threw
             THEN FALSE
             ELSE IF publicKey.address # m.address
             THEN FALSE
             ELSE TRUE

\* verifySignature: every exception of the try block is caught and gives false.
verifySignature(m, signature, address) ==
    IF address # m.address
    THEN FALSE
    ELSE IF ~is_some(m.keypair)
    THEN FALSE
    ELSE LET publicKey == verifyPersonalMessageSignature(getSignMessage(m), signature)
         IN  IF publicKey.threw
             THEN FALSE
             ELSE IF publicKey.address # m.address
             THEN FALSE
             ELSE TRUE

isValid(m, date_now) == date_now < m.expiresAt

\* The secret key getPrivateKey returns (none stands for the TypeError thrown
\* on a cleared keypair).
getPrivateKey(m) ==
    IF is_some(m.keypair) THEN some(borrow(m.keypair).secretKey) ELSE none

\* -------------------------------------------- seal-client: SessionKeyStore
\* store.get(publicKey): the manager stored under the key, none for undefined.
get(map, publicKey) == IF publicKey \in map THEN some(publicKey) ELSE none

\* store.create(config): requested keeps the config each key was created with.
Create(keys, ttls) ==
    \E k \in keys \ DOMAIN managers, a \in RequesterInputs, p \in PackageInputs,
       ttl \in ttls :
        LET cfg == [address |-> a, packageId |-> p, ttlMin |-> ttl]
            m == SessionKeyManager(cfg, Ed25519Keypair(k), dateNow)
        IN  /\ managers' = (k :> m) @@ managers
            /\ store' = store \cup {k}
            /\ requested' = (k :> cfg) @@ requested
            /\ call' = Call("create", k, <<cfg>>, getSessionKeyInfo(m))
            /\ UNCHANGED <<verified, dateNow, pending, cleanupInterval>>
            /\ UNCHANGED nonSessionVars

\* The signatures a caller may present for the manager m.
SignatureInputs(m) ==
    {Signature(TRUE, a, msg) :
        a \in {"a1", "a2"},
        msg \in {getSignMessage(m), [getSignMessage(m) EXCEPT !.packageId = "other"]}}
    \cup {Signature(FALSE, "a1", getSignMessage(m))}

\* store.get(k).verifySignature(signature, address); verified keeps the keys
\* on which it has returned true.
VerifySignature ==
    \E k \in store, address \in {"a1", "a2"} :
        \E signature \in SignatureInputs(managers[k]) :
            LET ok == verifySignature(managers[k], signature, address) IN
            /\ verified' = IF ok THEN verified \cup {k} ELSE verified
            /\ call' = Call("verifySignature", k, <<signature, address>>, ok)
            /\ UNCHANGED <<managers, store, requested, dateNow, pending, cleanupInterval>>
            /\ UNCHANGED nonSessionVars

\* store.get(k).isValid()
IsValid ==
    \E k \in store :
        /\ call' = Call("isValid", k, <<>>, isValid(managers[k], dateNow))
        /\ UNCHANGED <<managers, store, verified, requested, dateNow, pending, cleanupInterval>>
        /\ UNCHANGED nonSessionVars

\* store.get(k)?.getPrivateKey(): none when no manager is stored under k.
GetPrivateKey ==
    \E k \in PublicKeys :
        LET m == get(store, k) IN
        /\ call' = Call("getPrivateKey", k, <<>>,
                        IF is_some(m) THEN getPrivateKey(managers[borrow(m)]) ELSE none)
        /\ UNCHANGED <<managers, store, verified, requested, dateNow, pending, cleanupInterval>>
        /\ UNCHANGED nonSessionVars

\* The wall clock moves on to a later one of the instants.
AdvanceTo(instants) ==
    /\ \E t \in instants : t > dateNow /\ dateNow' = t
    /\ call' = Call("advance", "k1", <<>>, FALSE)
    /\ UNCHANGED <<managers, store, verified, requested, pending, cleanupInterval>>
    /\ UNCHANGED nonSessionVars

Advance == AdvanceTo(InstantsMs)

\* Session keys from creation to expiry.
NextSession ==
    \/ Create(PublicKeys, TtlInputs)
    \/ VerifySignature
    \/ IsValid
    \/ GetPrivateKey
    \/ Advance

SpecSession == Init /\ [][NextSession]_vars

\* ------------------------------------ seal-client: destroy, delete, sweep
\* getPublicKey (none stands for the TypeError thrown on a cleared keypair).
getPublicKey(m) ==
    IF is_some(m.keypair) THEN some(borrow(m.keypair).publicKey) ELSE none

\* destroy: this.keypair = null.
destroy(m) == [m EXCEPT !.keypair = none]

\* manager.destroy() on any manager a caller still holds a reference to.
Destroy ==
    \E k \in DOMAIN managers :
        /\ managers' = [managers EXCEPT ![k] = destroy(@)]
        /\ call' = Call("destroy", k, <<>>, FALSE)
        /\ UNCHANGED <<store, verified, requested, dateNow, pending, cleanupInterval>>
        /\ UNCHANGED nonSessionVars

\* store.delete(publicKey): the map and the managers as it leaves them, and
\* what it returns.
delete(map, heap, publicKey) ==
    IF publicKey \in map
    THEN [store |-> map \ {publicKey},
          managers |-> [heap EXCEPT ![publicKey] = destroy(@)],
          ret |-> TRUE]
    ELSE [store |-> map, managers |-> heap, ret |-> FALSE]

Delete ==
    \E k \in PublicKeys :
        LET r == delete(store, managers, k) IN
        /\ store' = r.store
        /\ managers' = r.managers
        /\ call' = Call("delete", k, <<>>, r.ret)
        /\ UNCHANGED <<verified, requested, dateNow, pending, cleanupInterval>>
        /\ UNCHANGED nonSessionVars

\* store.cleanup deleting the expired entries without destroying them.
cleanup_without_destroy(map, heap, date_now) ==
    LET expired == {k \in map : ~isValid(heap[k], date_now)}
    IN  [store |-> map \ expired, managers |-> heap]

\* store.cleanup(): every entry whose isValid() is false is destroyed and
\* deleted, in one synchronous loop.
cleanup(map, heap, date_now) ==
    LET expired == {k \in map : ~isValid(heap[k], date_now)}
    IN  [store |-> map \ expired,
         managers |-> [k \in DOMAIN heap |->
                          IF k \in expired THEN destroy(heap[k]) ELSE heap[k]]]

\* The setInterval timer of the store fires, which it does only while the
\* interval is set.
Cleanup ==
    LET r == cleanup(store, managers, dateNow) IN
    /\ cleanupInterval
    /\ store' = r.store
    /\ managers' = r.managers
    /\ call' = Call("cleanup", "k1", <<>>, FALSE)
    /\ UNCHANGED <<verified, requested, dateNow, pending, cleanupInterval>>
    /\ UNCHANGED nonSessionVars

\* ------------------------------------------- seal-client: store.verify
\* store.verify returning null on an expired key without removing its entry.
verify_keeps_expired(map, heap, signedKey, requesterAddress, date_now) ==
    IF ~(signedKey.publicKey \in map)
    THEN [store |-> map, suspended |-> FALSE, isValidSignature |-> FALSE]
    ELSE IF ~isValid(heap[signedKey.publicKey], date_now)
    THEN [store |-> map, suspended |-> FALSE, isValidSignature |-> FALSE]
    ELSE [store |-> map, suspended |-> TRUE,
          isValidSignature |-> verifySignature(heap[signedKey.publicKey],
                                               signedKey.signature, requesterAddress)]

\* store.verify up to its await: the map as it leaves it, whether it is
\* suspended at await manager.verifySignature(...) (otherwise it has returned
\* null), and what verifySignature will resolve to.  The message, the address
\* comparison and the signature handed to verifyPersonalMessageSignature are
\* all fixed before verifySignature first yields.
verify(map, heap, signedKey, requesterAddress, date_now) ==
    IF ~(signedKey.publicKey \in map)
    THEN [store |-> map, suspended |-> FALSE, isValidSignature |-> FALSE]
    ELSE IF ~isValid(heap[signedKey.publicKey], date_now)
    THEN [store |-> map \ {signedKey.publicKey}, suspended |-> FALSE,
          isValidSignature |-> FALSE]
    ELSE [store |-> map, suspended |-> TRUE,
          isValidSignature |-> verifySignature(heap[signedKey.publicKey],
                                               signedKey.signature, requesterAddress)]

\* The message create returned for the key k, which the wallet may have signed.
IssuedMessage(k) ==
    [packageId |-> managers[k].packageId,
     ttlMin |-> (managers[k].expiresAt - managers[k].createdAt) \div 60000,
     createdAt |-> managers[k].createdAt,
     publicKey |-> k]

\* The signatures a SignedSessionKey for the public key k may carry: the
\* requester's over the issued message, and bytes that do not parse.
SignedKeyInputs(k) ==
    {[publicKey |-> k, signature |-> sg] :
        sg \in (IF k \in DOMAIN managers
                THEN {Signature(TRUE, managers[k].address, IssuedMessage(k))}
                ELSE {})
               \cup {Signature(FALSE, "a1", <<>>)}}

\* A request calls store.verify; at most one call is suspended at a time.
Verify ==
    \E k \in PublicKeys, requesterAddress \in {"a1", "a2"} :
        \E signedKey \in SignedKeyInputs(k) :
            LET r == verify(store, managers, signedKey, requesterAddress, dateNow) IN
            /\ pending = <<>>
            /\ store' = r.store
            /\ pending' = IF r.suspended
                          THEN <<[signedKey |-> signedKey,
                                  requesterAddress |-> requesterAddress,
                                  isValidSignature |-> r.isValidSignature]>>
                          ELSE <<>>
            /\ call' = Call(IF r.suspended THEN "verify.await" ELSE "verify", k,
                            <<signedKey.signature, requesterAddress>>, none)
            /\ UNCHANGED <<managers, verified, requested, dateNow, cleanupInterval>>
            /\ UNCHANGED nonSessionVars

\* The suspended store.verify resumes and returns the manager (as a reference,
\* its key) or null (none).
VerifyResume ==
    /\ pending # <<>>
    /\ LET p == pending[1]
           k == p.signedKey.publicKey
       IN  /\ call' = Call("verify", k, <<p.signedKey.signature, p.requesterAddress>>,
                           IF p.isValidSignature THEN some(k) ELSE none)
           /\ verified' = IF p.isValidSignature THEN verified \cup {k} ELSE verified
    /\ pending' = <<>>
    /\ UNCHANGED <<managers, store, requested, dateNow, cleanupInterval>>
    /\ UNCHANGED nonSessionVars

\* The instants the store's life is followed at: creation, the expiry of a
\* 60-minute key and the expiry of a 1440-minute key.
StoreInstantsMs == {0, 60 * 60000, 1440 * 60000}

\* The SessionKeyStore under concurrent requests, the sweep and the clock.
NextStore ==
    \/ Create(PublicKeys, {none, some(60)})
    \/ Verify
    \/ VerifyResume
    \/ Delete
    \/ Cleanup
    \/ Destroy
    \/ IsValid
    \/ AdvanceTo(StoreInstantsMs)

SpecStore == Init /\ [][NextStore]_vars

\* ------------------------------------------- seal-client: the sweep timer
\* stop(): the interval is cleared if it is set (TRUE stands for the timer
\* the constructor set, FALSE for null).
stop(interval) == IF interval THEN FALSE ELSE interval

Stop ==
    /\ cleanupInterval' = stop(cleanupInterval)
    /\ call' = Call("stop", "k1", <<>>, FALSE)
    /\ UNCHANGED <<managers, store, verified, requested, dateNow, pending>>
    /\ UNCHANGED nonSessionVars

\* The store with its sweep timer: keys are created, requests verify and
\* delete them, time passes, the timer fires and stop() may be called.
NextSweep ==
    \/ Create(PublicKeys, {some(60)})
    \/ Verify
    \/ VerifyResume
    \/ Delete
    \/ Cleanup
    \/ Stop
    \/ AdvanceTo(StoreInstantsMs)

\* setInterval keeps firing the sweep every five minutes for as long as the
\* interval is set: the sweep is weakly fair.
SpecSweep == Init /\ [][NextSweep]_vars /\ WF_vars(Cleanup)

\* ------------------------------------------------- seal-api-server.ts
\* A body field is an Option: none is a field that is absent or falsy.
ApiAddresses == {"a1", "a2"}

ApiPackages == {"pkg"}

\* `${address}:${packageId}`.
StoreKey(address, packageId) == <<address, packageId>>

\* address.startsWith('0x') && address.length === 66.
WellFormedId(x) == x \in ApiAddresses \cup ApiPackages

\* What a run of a handler did with its dependencies: the outcome of the
\* access-policy lookup, of sealClient.fetchKeys and of sealClient.decrypt
\* ("none" when the run never reached the call).
Run(lookup, fetchKeys, sealDecrypt) ==
    [lookup |-> lookup, fetchKeys |-> fetchKeys, sealDecrypt |-> sealDecrypt]

NoRun == Run("none", "none", "none")

\* The HTTP response of the last request: status, body.success, body.report,
\* body.mode, with the store key the request addressed and its run.
Response(op, key, status, success, report, mode, run) ==
    [op |-> op, key |-> key, status |-> status, success |-> success,
     report |-> report, mode |-> mode, run |-> run]

\* The Seal SDK SessionKey as SessionKey.create leaves it: no signature yet.
SessionKey(address, packageId, ttlMin, creationTimeMs) ==
    [address |-> address, packageId |-> packageId, ttlMin |-> ttlMin,
     creationTimeMs |-> creationTimeMs, personalMessageSignature |-> none]

\* sessionKey.isExpired(): the key's life ends at creationTimeMs + ttlMin
\* minutes.
isExpired(sessionKey, time) ==
    time >= sessionKey.creationTimeMs + sessionKey.ttlMin * 60 * 1000

\* sessionKey.getPersonalMessage().
getPersonalMessage(sessionKey) ==
    [packageId |-> sessionKey.packageId, ttlMin |-> sessionKey.ttlMin,
     creationTimeMs |-> sessionKey.creationTimeMs]

\* A wallet signature: who signed and what.
WalletSignature(signer, message) == [signer |-> signer, message |-> message]

\* sessionKey.setPersonalMessageSignature(signature): resolves when the
\* signature is the key's address over the key's personal message, throws
\* otherwise.
setPersonalMessageSignature(sessionKey, signature) ==
    IF signature.signer = sessionKey.address
       /\ signature.message = getPersonalMessage(sessionKey)
    THEN [threw |-> FALSE,
          sessionKey |-> [sessionKey EXCEPT !.personalMessageSignature = some(signature)]]
    ELSE [threw |-> TRUE, sessionKey |-> sessionKey]

\* Map.set and Map.delete on sealSessionKeyStore.
map_set(map, key, value) ==
    [k \in DOMAIN map \cup {key} |-> IF k = key THEN value ELSE map[k]]

map_delete(map, key) == [k \in DOMAIN map \ {key} |-> map[k]]

\* POST /api/seal/create-session-key.  body = [address, packageId, ttlMin];
\* sdk is whether SessionKey.create resolves ("ok") or throws.
create_session_key(body, map, srv, time, sdk) ==
    LET ttlMin == IF is_some(body.ttlMin) THEN borrow(body.ttlMin) ELSE 60
        nokey == StoreKey("", "")
    IN
    IF ~is_some(body.address)
    THEN [map |-> map, res |-> Response("create-session-key", nokey, 400, FALSE, none, "", NoRun)]
    ELSE IF ~is_some(body.packageId)
    THEN [map |-> map, res |-> Response("create-session-key", nokey, 400, FALSE, none, "", NoRun)]
    ELSE LET address == borrow(body.address)
             packageId == borrow(body.packageId)
             storeKey == StoreKey(address, packageId)
         IN
         IF ~srv.suiClient
         THEN [map |-> map, res |-> Response("create-session-key", storeKey, 503, FALSE, none, "", NoRun)]
         ELSE IF ~WellFormedId(address) \/ ~WellFormedId(packageId)
         THEN [map |-> map, res |-> Response("create-session-key", storeKey, 400, FALSE, none, "", NoRun)]
         ELSE IF sdk # "ok"
         THEN [map |-> map, res |-> Response("create-session-key", storeKey, 500, FALSE, none, "", NoRun)]
         ELSE [map |-> map_set(map, storeKey, SessionKey(address, packageId, ttlMin, time)),
               res |-> Response("create-session-key", storeKey, 200, TRUE, none, "", NoRun)]

\* set-signature answering 401 for an expired key while leaving it stored.
set_signature_keeps_expired(body, map, time) ==
    IF ~is_some(body.address) \/ ~is_some(body.packageId) \/ ~is_some(body.signature)
    THEN [map |-> map, res |-> Response("set-signature", StoreKey("", ""), 400, FALSE, none, "", NoRun)]
    ELSE LET storeKey == StoreKey(borrow(body.address), borrow(body.packageId)) IN
         IF storeKey \notin DOMAIN map
         THEN [map |-> map, res |-> Response("set-signature", storeKey, 404, FALSE, none, "", NoRun)]
         ELSE IF isExpired(map[storeKey], time)
         THEN [map |-> map,
               res |-> Response("set-signature", storeKey, 401, FALSE, none, "", NoRun)]
         ELSE LET r == setPersonalMessageSignature(map[storeKey], borrow(body.signature)) IN
              IF r.threw
              THEN [map |-> map, res |-> Response("set-signature", storeKey, 500, FALSE, none, "", NoRun)]
              ELSE [map |-> map_set(map, storeKey, r.sessionKey),
                    res |-> Response("set-signature", storeKey, 200, TRUE, none, "", NoRun)]

\* POST /api/seal/set-signature.  body = [address, packageId, signature].
set_signature(body, map, time) ==
    IF ~is_some(body.address) \/ ~is_some(body.packageId) \/ ~is_some(body.signature)
    THEN [map |-> map, res |-> Response("set-signature", StoreKey("", ""), 400, FALSE, none, "", NoRun)]
    ELSE LET storeKey == StoreKey(borrow(body.address), borrow(body.packageId)) IN
         IF storeKey \notin DOMAIN map
         THEN [map |-> map, res |-> Response("set-signature", storeKey, 404, FALSE, none, "", NoRun)]
         ELSE IF isExpired(map[storeKey], time)
         THEN [map |-> map_delete(map, storeKey),
               res |-> Response("set-signature", storeKey, 401, FALSE, none, "", NoRun)]
         ELSE LET r == setPersonalMessageSignature(map[storeKey], borrow(body.signature)) IN
              IF r.threw
              THEN [map |-> map, res |-> Response("set-signature", storeKey, 500, FALSE, none, "", NoRun)]
              ELSE [map |-> map_set(map, storeKey, r.sessionKey),
                    res |-> Response("set-signature", storeKey, 200, TRUE, none, "", NoRun)]

\* checkSuiAccessPolicy: lookup is what checkReportAccessPolicy does
\* ("allowed", "denied" or "throws").
checkSuiAccessPolicy(srv, lookup) ==
    IF ~srv.suiContractClient THEN TRUE
    ELSE IF lookup = "throws" THEN TRUE
    ELSE lookup = "allowed"

\* The outcome of the lookup as a run records it.
lookup_outcome(srv, lookup) ==
    IF ~srv.suiContractClient THEN "unavailable"
    ELSE IF lookup = "throws" THEN "failed"
    ELSE lookup

\* JSON.parse(atob(encryptedData)): parses exactly when the payload submitted
\* is the base64 of a JSON text, not a Seal ciphertext.
fallback_decode(encryptedData) ==
    IF encryptedData.kind = "json" THEN some(encryptedData.report) ELSE none

\* sealClient.fetchKeys with the session key: the key servers refuse a session
\* key that carries no signature; otherwise the network answers or fails.
fetchKeys(sessionKey, network) ==
    IF ~is_some(sessionKey.personalMessageSignature) THEN "failed"
    ELSE IF network = "ok" THEN "ok" ELSE "failed"

\* sealClient.decrypt: needs a Seal ciphertext and the keys fetched in this
\* run.
seal_decrypt(encryptedData, fetched) ==
    IF encryptedData.kind = "sealed" /\ fetched = "ok"
    THEN some(encryptedData.report) ELSE none

\* POST /api/seal/decrypt.  body = [encryptedData, reportId, requesterAddress,
\* packageId, objectId]; env = [lookup, proof, network] are the outcomes of
\* checkReportAccessPolicy, buildAccessProof and the key-server network.
decrypt(body, map, srv, time, env) ==
    LET nokey == StoreKey("", "") IN
    IF ~srv.sealClient
    THEN [map |-> map, res |-> Response("decrypt", nokey, 503, FALSE, none, "", NoRun)]
    ELSE IF ~srv.accessProofBuilder
    THEN [map |-> map, res |-> Response("decrypt", nokey, 500, FALSE, none, "", NoRun)]
    ELSE IF ~is_some(body.encryptedData) \/ ~is_some(body.reportId)
            \/ ~is_some(body.requesterAddress) \/ ~is_some(body.packageId)
    THEN [map |-> map, res |-> Response("decrypt", nokey, 400, FALSE, none, "", NoRun)]
    ELSE LET storeKey == StoreKey(borrow(body.requesterAddress), borrow(body.packageId))
             encryptedData == borrow(body.encryptedData)
         IN
         IF storeKey \notin DOMAIN map
         THEN [map |-> map, res |-> Response("decrypt", storeKey, 404, FALSE, none, "", NoRun)]
         ELSE IF isExpired(map[storeKey], time)
         THEN [map |-> map_delete(map, storeKey),
               res |-> Response("decrypt", storeKey, 401, FALSE, none, "", NoRun)]
         ELSE LET hasAccess == checkSuiAccessPolicy(srv, env.lookup)
                  looked == lookup_outcome(srv, env.lookup)
              IN
              IF ~hasAccess
              THEN [map |-> map,
                    res |-> Response("decrypt", storeKey, 403, FALSE, none, "", Run(looked, "none", "none"))]
              ELSE IF env.proof # "ok"
              THEN [map |-> map,
                    res |-> Response("decrypt", storeKey, 500, FALSE, none, "", Run(looked, "none", "none"))]
              ELSE LET fetched == IF is_some(body.objectId)
                                  THEN fetchKeys(map[storeKey], env.network)
                                  ELSE "none"
                       decrypted == IF fetched = "failed" THEN none
                                    ELSE seal_decrypt(encryptedData, fetched)
                       sealed == IF fetched = "failed" THEN "none"
                                 ELSE IF is_some(decrypted) THEN "ok" ELSE "failed"
                       run == Run(looked, fetched, sealed)
                   IN
                   IF is_some(decrypted)
                   THEN [map |-> map,
                         res |-> Response("decrypt", storeKey, 200, TRUE, decrypted, "real-seal", run)]
                   ELSE IF is_some(fallback_decode(encryptedData))
                   THEN [map |-> map,
                         res |-> Response("decrypt", storeKey, 200, TRUE,
                                          fallback_decode(encryptedData), "fallback", run)]
                   ELSE [map |-> map,
                         res |-> Response("decrypt", storeKey, 500, FALSE, none, "", run)]

\* The bodies requests arrive with.
AddressInputs == {none, some("a1"), some("a2"), some("0x")}

EncryptedDataInputs ==
    {none, some([kind |-> "sealed", report |-> "r1"]),
           some([kind |-> "json", report |-> "r1"])}

OutcomeInputs == {"ok", "throws"}

LookupInputs == {"allowed", "denied", "throws"}

CreateSessionKey ==
    \E address \in AddressInputs, packageId \in {none, some("pkg")},
       ttlMin \in {none}, sdk \in OutcomeInputs :
        LET r == create_session_key([address |-> address, packageId |-> packageId,
                                     ttlMin |-> ttlMin],
                                    sealSessionKeyStore, server, timeMs, sdk)
        IN  /\ sealSessionKeyStore' = r.map
            /\ res' = r.res
            /\ UNCHANGED <<server, timeMs>>
            /\ UNCHANGED nonApiVars

\* The signatures a wallet may submit for the key stored under an address:
\* either address's signature over the key's personal message.
WalletSignatureInputs(address, packageId) ==
    {none} \cup
    (IF is_some(address) /\ is_some(packageId)
     THEN IF StoreKey(borrow(address), borrow(packageId)) \in DOMAIN sealSessionKeyStore
          THEN {some(WalletSignature(a, getPersonalMessage(
                        sealSessionKeyStore[StoreKey(borrow(address), borrow(packageId))]))) :
                   a \in ApiAddresses}
          ELSE {some(WalletSignature("a1", <<>>))}
     ELSE {})

SetSignature ==
    \E address \in AddressInputs \ {some("0x")}, packageId \in {none, some("pkg")} :
        \E signature \in WalletSignatureInputs(address, packageId) :
            LET r == set_signature([address |-> address, packageId |-> packageId,
                                    signature |-> signature],
                                   sealSessionKeyStore, timeMs)
            IN  /\ sealSessionKeyStore' = r.map
                /\ res' = r.res
                /\ UNCHANGED <<server, timeMs>>
                /\ UNCHANGED nonApiVars

Decrypt ==
    \E encryptedData \in EncryptedDataInputs, requesterAddress \in AddressInputs \ {some("0x")},
       objectId \in {none, some("obj")},
       lookup \in LookupInputs, proof \in OutcomeInputs, network \in OutcomeInputs :
        LET r == decrypt([encryptedData |-> encryptedData, reportId |-> some("rep"),
                          requesterAddress |-> requesterAddress,
                          packageId |-> some("pkg"), objectId |-> objectId],
                         sealSessionKeyStore, server, timeMs,
                         [lookup |-> lookup, proof |-> proof, network |-> network])
        IN  /\ sealSessionKeyStore' = r.map
            /\ res' = r.res
            /\ UNCHANGED <<server, timeMs>>
            /\ UNCHANGED nonApiVars

\* The instants the server's clock is read at: a key's creation and past the
\* end of a 60-minute key.
ApiInstantsMs == {0, 61 * 60000}

ApiAdvance ==
    /\ \E t \in ApiInstantsMs : t > timeMs /\ timeMs' = t
    /\ res' = Response("advance", StoreKey("", ""), 0, FALSE, none, "", NoRun)
    /\ UNCHANGED <<server, sealSessionKeyStore>>
    /\ UNCHANGED nonApiVars

\* The session-key endpoints of the API server once it is listening.
NextApi ==
    \/ CreateSessionKey
    \/ SetSignature
    \/ Decrypt
    \/ ApiAdvance

SpecApi == Init /\ [][NextApi]_vars


\* ------------------------------------------- the report id in transit
\* What the last conversion was applied to and what it gave.
Codec(op, address, bytes, threw, decoded) ==
    [op |-> op, address |-> address, bytes |-> bytes, threw |-> threw,
     abort |-> decoded.abort, value |-> decoded.value]

\* seal_approve decodes the id bytes of a transaction.
BytesToU256 ==
    \E bytes \in ByteVectorInputs :
        /\ codec' = Codec("bytes_to_u256", <<>>, bytes, FALSE, bytes_to_u256(bytes))
        /\ UNCHANGED nonCodecVars

\* buildAccessProof encodes objectId and seal_approve decodes the bytes.
AddressToBytesLE ==
    \E objectId \in ObjectIdInputs :
        LET idBytes == addressToBytesLE(objectId)
        IN  /\ codec' = Codec("addressToBytesLE", objectId, idBytes.bytes, idBytes.threw,
                              IF idBytes.threw
                              THEN [abort |-> 0, value |-> u256(0)]
                              ELSE bytes_to_u256(idBytes.bytes))
            /\ UNCHANGED nonCodecVars

\* The report id on its way from the proof builder to seal_approve.
NextCodec ==
    \/ BytesToU256
    \/ AddressToBytesLE

SpecCodec == Init /\ [][NextCodec]_vars

\* ------------------------------------------------------ shared notions
\* The list check_access consults for an access type (empty for any other).
list_of(policy, access_type) ==
    IF access_type = ACCESS_READ THEN policy.allowed_readers
    ELSE IF access_type = ACCESS_AUDIT THEN policy.allowed_auditors
    ELSE IF access_type = ACCESS_ADMIN THEN policy.allowed_admins
    ELSE <<>>

Expired(policy, clock) == is_some(policy.expires_at) /\ clock > borrow(policy.expires_at)

InAnyList(policy, a) ==
    \/ contains(policy.allowed_readers, a)
    \/ contains(policy.allowed_auditors, a)
    \/ contains(policy.allowed_admins, a)

\* Every principal is denied by both stages, at every time and for every id.
DeniedToAll(policy) ==
    \A a \in Addr :
        /\ \A k \in AccessTypeInputs, t \in Times : ~check_access(policy, a, k, t)
        /\ \A b \in IdBytesInputs : seal_approve(b, policy, a) # 0

Committed(op) == last.op = op /\ last.abort = 0

\* ------------------------------------------------------------------ C1
\* C1: revocation is terminal.  A committed revoke_policy leaves the policy
\* inactive; from an inactive policy every step (grant_access_token,
\* remove_access, revoke_policy, log_access, seal_approve, the clock) leaves
\* it inactive, and in every such state check_access is false
\* and seal_approve aborts for every principal, the creator and the token
\* holders included.
C1_RevocationTerminal ==
    [][\A p \in DOMAIN policies :
          /\ p \in DOMAIN policies'
          /\ (Committed("revoke_policy")' \/ ~policies[p].is_active)
                => (~policies'[p].is_active /\ DeniedToAll(policies'[p]))]_vars

\* A revoked policy whose reader a2 holds a token, on which the creator's
\* seal_approve has just aborted with E_POLICY_REVOKED.
C1_Witness ==
    \E p \in DOMAIN policies :
        /\ ~policies[p].is_active
        /\ contains(policies[p].allowed_readers, "a2")
        /\ \E t \in DOMAIN tokens : tokens[t].owner = "a2"
        /\ last.op = "seal_approve" /\ last.sender = policies[p].creator
        /\ last.abort = E_POLICY_REVOKED

\* ------------------------------------------------------------------ C2
\* C2 (as claimed): the creator bypasses expiry: every check_access by the
\* creator of an active policy returns true, whatever the time.
C2_CreatorBypass ==
    \A p \in DOMAIN policies :
        (last.op = "check_access" /\ last.sender = policies[p].creator
         /\ policies[p].is_active) => last.ret

\* ------------------------------------------------------------------ C3
\* C3: seal_approve by c commits iff the policy is active, the bytes decode
\* (little-endian) to the policy's report id and c is the creator or in one
\* of the three lists; the outcome is the same for every expires_at, so
\* members of an expired active policy still pass; an inactive policy aborts
\* with E_POLICY_REVOKED and a mismatched id with E_REPORT_NOT_FOUND, for the
\* creator too.
C3_Stage1Decision ==
    \A p \in DOMAIN policies, c \in Addr, b \in IdBytesInputs :
        LET pol == policies[p]
            r == seal_approve(b, pol, c)
            id == bytes_to_u256(b)
        IN  /\ (r = 0) <=> /\ pol.is_active
                           /\ id.abort = 0 /\ id.value = pol.report_blob_id
                           /\ (c = pol.creator \/ InAnyList(pol, c))
            /\ \A e \in ExpiryInputs : seal_approve(b, [pol EXCEPT !.expires_at = e], c) = r
            /\ ~pol.is_active => r = E_POLICY_REVOKED
            /\ (pol.is_active /\ id.abort = 0 /\ id.value # pol.report_blob_id)
                   => r = E_REPORT_NOT_FOUND
            /\ (last.op = "seal_approve" /\ last.sender = c /\ last.abort = 0)
                   => (pol.is_active /\ (c = pol.creator \/ InAnyList(pol, c)))

\* seal_approve by the non-creator member a2 has just committed on an active
\* policy that is past its expires_at.
C3_Witness ==
    \E p \in DOMAIN policies :
        /\ policies[p].is_active /\ Expired(policies[p], now)
        /\ policies[p].creator # "a2" /\ InAnyList(policies[p], "a2")
        /\ Committed("seal_approve") /\ last.sender = "a2"

C5_CreatorStaysAdmin ==
    /\ [](\A p \in DOMAIN policies :
            contains(policies[p].allowed_admins, policies[p].creator))
    /\ [][\A p \in DOMAIN policies :
            /\ policies'[p].creator = policies[p].creator
            /\ (last'.op = "remove_access" /\ last'.target = policies[p].creator
                /\ last'.kind = ACCESS_ADMIN)
                 => /\ policies'[p] = policies[p]
                    /\ (last'.sender = policies[p].creator
                        \/ contains(policies[p].allowed_admins, last'.sender))
                         => last'.abort = 0]_vars

\* The admin a2 has just called remove_access(policy, creator, Admin), which
\* committed.
C5_Witness ==
    \E p \in DOMAIN policies :
        /\ Committed("remove_access") /\ last.sender = "a2"
        /\ last.target = policies[p].creator /\ last.kind = ACCESS_ADMIN
        /\ policies[p].creator # "a2"
        /\ contains(policies[p].allowed_admins, "a2")

\* ------------------------------------------------------------------ C6
\* C6: grant_access_token by the creator or an admin aborts with
\* E_POLICY_REVOKED on an inactive policy and with E_POLICY_EXPIRED on an
\* active policy past expires_at; it aborts with E_INVALID_ACCESS_TYPE on an
\* unrecognised access type; an aborting grant mints no token and changes no
\* list and no other field of the policy.
C6_GrantRejected ==
    /\ [](\A p \in DOMAIN policies, s \in Addr, r \in Addr, k \in AccessTypeInputs,
             tr \in BOOLEAN, e \in ExpiryInputs :
            LET pol == policies[p]
                g == grant_access_token(p, pol, r, k, tr, e, s, now)
            IN  (s = pol.creator \/ contains(pol.allowed_admins, s)) =>
                /\ ~pol.is_active => g.abort = E_POLICY_REVOKED
                /\ (pol.is_active /\ Expired(pol, now)) => g.abort = E_POLICY_EXPIRED
                /\ (pol.is_active /\ ~Expired(pol, now)
                    /\ k \notin {ACCESS_READ, ACCESS_AUDIT, ACCESS_ADMIN})
                     => g.abort = E_INVALID_ACCESS_TYPE
                /\ g.abort # 0 => (g.policy = pol /\ g.token = none))
    /\ [][(last'.op = "grant_access_token" /\ last'.abort # 0)
            => UNCHANGED <<policies, logs, tokens, minted, now>>]_vars

\* The creator's grant_access_token has just aborted with E_POLICY_EXPIRED on
\* an active policy.
C6_Witness ==
    \E p \in DOMAIN policies :
        /\ policies[p].is_active /\ Expired(policies[p], now)
        /\ last.op = "grant_access_token" /\ last.sender = policies[p].creator
        /\ last.abort = E_POLICY_EXPIRED

\* ------------------------------------------------------------------ C7
\* C7: a committed grant_access_token(policy, X, kind) mints exactly one
\* token, held by X with that kind, and check_access(policy, X, kind, now)
\* is true after it; check_access of any principal turns from true to false
\* only in a step that removes it from that list, revokes the policy or
\* moves the clock past expires_at; after a committed revoke_policy it is
\* false.
C7_GrantThenAccess ==
    [][\A p \in DOMAIN policies :
          /\ (last'.op = "grant_access_token" /\ last'.abort = 0)
               => /\ minted' = minted + 1
                  /\ DOMAIN tokens' = DOMAIN tokens \cup {minted'}
                  /\ minted' \notin DOMAIN tokens
                  /\ \A t \in DOMAIN tokens : tokens'[t] = tokens[t]
                  /\ tokens'[minted'].holder = last'.target
                  /\ tokens'[minted'].owner = last'.target
                  /\ tokens'[minted'].access_type = last'.kind
                  /\ check_access(policies'[p], last'.target, last'.kind, now')
          /\ \A a \in Addr, k \in AccessTypeInputs :
               (check_access(policies[p], a, k, now)
                /\ ~check_access(policies'[p], a, k, now'))
                 => \/ /\ last'.op = "remove_access" /\ last'.abort = 0
                       /\ last'.target = a /\ last'.kind = k
                    \/ last'.op = "revoke_policy" /\ last'.abort = 0
                    \/ last'.op = "tick" /\ Expired(policies'[p], now')
          /\ (last'.op = "revoke_policy" /\ last'.abort = 0)
               => \A a \in Addr, k \in AccessTypeInputs :
                      ~check_access(policies'[p], a, k, now')]_vars

\* The end of the scenario: the policy had no readers, no auditors and no
\* expiry, a2 was granted a Read token, the policy was revoked, and
\* check_access(a2, Read) has just returned false.
C7_Witness ==
    \E p \in DOMAIN policies :
        /\ policies[p].allowed_readers = <<"a2">>
        /\ policies[p].allowed_auditors = <<>>
        /\ policies[p].expires_at = none
        /\ ~policies[p].is_active
        /\ \E t \in DOMAIN tokens :
               tokens[t].holder = "a2" /\ tokens[t].access_type = ACCESS_READ
        /\ last.op = "check_access" /\ last.sender = "a2" /\ last.kind = ACCESS_READ
        /\ ~last.ret

\* ------------------------------------------------------------------ C8
\* C8 (as claimed): tokens and lists are in sync: the owner of a token of
\* type k is in the policy's list for k, and every address in a list (the
\* lists start empty here, so it was put there by a grant) owns a token of
\* that type.
C8_TokenAclSync ==
    \A p \in DOMAIN policies :
        /\ \A t \in DOMAIN tokens :
               contains(list_of(policies[p], tokens[t].access_type), tokens[t].owner)
        /\ \A a \in Addr \ {policies[p].creator}, k \in {ACCESS_READ, ACCESS_AUDIT, ACCESS_ADMIN} :
               contains(list_of(policies[p], k), a)
                 => \E t \in DOMAIN tokens :
                        tokens[t].owner = a /\ tokens[t].access_type = k

C10_BurnOnlyExpired ==
    last.op = "burn_expired_token"
      => /\ (last.abort = 0) <=> last.ret
         /\ last.abort # 0 => last.abort = E_TOKEN_EXPIRED
\* ----------------------------------------------------------------- C11
\* C11: policy mutations are authorised.  A step that changes a policy's
\* allowed_readers, allowed_auditors or allowed_admins is a grant_access_token
\* or remove_access sent by the creator or by an address in allowed_admins
\* before the step; a step that changes is_active or revocation_reason is a
\* revoke_policy sent by the creator; grant_access_token and remove_access
\* sent by anyone else, and revoke_policy sent by anyone but the creator (a
\* non-creator admin included), abort and leave the policy as it was.
C11_MutationsAuthorised ==
    [][\A p \in DOMAIN policies :
          LET old == policies[p]
              new == policies'[p]
              by_admin == \/ last'.sender = old.creator
                          \/ contains(old.allowed_admins, last'.sender)
          IN  /\ (\/ new.allowed_readers # old.allowed_readers
                  \/ new.allowed_auditors # old.allowed_auditors
                  \/ new.allowed_admins # old.allowed_admins)
                   => /\ last'.op \in {"grant_access_token", "remove_access"}
                      /\ last'.abort = 0
                      /\ by_admin
              /\ (\/ new.is_active # old.is_active
                  \/ new.revocation_reason # old.revocation_reason)
                   => /\ last'.op = "revoke_policy"
                      /\ last'.abort = 0
                      /\ last'.sender = old.creator
              /\ (last'.op \in {"grant_access_token", "remove_access"} /\ ~by_admin)
                   => (last'.abort # 0 /\ new = old)
              /\ (last'.op = "revoke_policy" /\ last'.sender # old.creator)
                   => (last'.abort # 0 /\ new = old)]_vars

\* The admin a2, who is not the creator, has just called revoke_policy, which
\* aborted and left the policy active.
C11_Witness ==
    \E p \in DOMAIN policies :
        /\ last.op = "revoke_policy" /\ last.sender = "a2" /\ last.abort # 0
        /\ policies[p].creator # "a2"
        /\ contains(policies[p].allowed_admins, "a2")
        /\ policies[p].is_active
C13_CeilThreshold ==
    \A i \in DOMAIN audit_records :
        LET r == audit_records[i] IN
        r.is_valid = (r.successful_verifications >= ((r.total_challenges * 95 + 99) \div 100))
\* ----------------------------------------------------------------- C14
\* C14: submit_audit_record validates in order.  A sender not in
\* authorized_auditors aborts with E_UNAUTHORIZED; otherwise a
\* total_challenges outside [min_challenge_count, max_challenge_count] aborts
\* with E_INVALID_CHALLENGE_COUNT; otherwise an algorithm other than
\* ALGO_FALCON512 and ALGO_DILITHIUM2 aborts with
\* E_INVALID_SIGNATURE_ALGORITHM.  An aborting submit_audit_record creates no
\* AuditRecord, emits no event and leaves the config, total_audits included,
\* as it was.
C14_SubmitValidationOrder ==
    [][tx'.op = "submit_audit_record" =>
          LET authorized == contains(config.authorized_auditors, tx'.sender)
              in_range == /\ tx'.args[1] >= config.min_challenge_count
                          /\ tx'.args[1] <= config.max_challenge_count
              known == tx'.args[3] \in {ALGO_FALCON512, ALGO_DILITHIUM2}
          IN  /\ ~authorized => tx'.abort = E_UNAUTHORIZED
              /\ (authorized /\ ~in_range) => tx'.abort = E_INVALID_CHALLENGE_COUNT
              /\ (authorized /\ in_range /\ ~known)
                   => tx'.abort = E_INVALID_SIGNATURE_ALGORITHM
              /\ tx'.abort # 0
                   => /\ audit_records' = audit_records
                      /\ tx'.events = <<>>
                      /\ config' = config]_vars

\* The authorized auditor a2 has just submitted a total_challenges outside
\* the configured range together with an unknown algorithm; the submission
\* aborted with E_INVALID_CHALLENGE_COUNT.
C14_Witness ==
    /\ tx.op = "submit_audit_record" /\ tx.sender = "a2"
    /\ contains(config.authorized_auditors, "a2")
    /\ tx.args[1] > config.max_challenge_count
    /\ tx.args[3] = ALGO_DILITHIUM2 + 1
    /\ tx.abort = E_INVALID_CHALLENGE_COUNT
    /\ audit_records = <<>>
\* ----------------------------------------------------------------- C15
\* The BlobAuditFailed events among the events of a transaction.
alerts_of(events) == SelectSeq(events, LAMBDA ev : ev.type = "BlobAuditFailed")

RECURSIVE trailing_invalid(_)
\* The length of the trailing run of is_valid = false calls.
trailing_invalid(cs) ==
    IF cs = <<>> \/ cs[Len(cs)].is_valid
    THEN 0
    ELSE 1 + trailing_invalid(SubSeq(cs, 1, Len(cs) - 1))

\* C16: after any sequence of update_blob_audit_history calls on one
\* BlobAuditHistory, consecutive_failures is the length of the trailing run
\* of is_valid = false calls, and was so after each of the calls;
\* total_audits is the number of calls and the length of audit_records;
\* last_audit_epoch is the challenge_epoch of the most recent call.
C16_ConsecutiveFailures ==
    \A h \in DOMAIN histories :
        /\ histories[h].consecutive_failures = trailing_invalid(calls[h])
        /\ \A i \in DOMAIN calls[h] :
              calls[h][i].consecutive_failures = trailing_invalid(SubSeq(calls[h], 1, i))
        /\ histories[h].total_audits = Len(calls[h])
        /\ histories[h].total_audits = Len(histories[h].audit_records)
        /\ calls[h] # <<>>
             => histories[h].last_audit_epoch = calls[h][Len(calls[h])].challenge_epoch

\* The outcomes [valid, invalid, invalid, valid] have been applied to one
\* history and left consecutive_failures 0, 1, 2, 0.
C16_Witness ==
    \E h \in DOMAIN histories :
        /\ [i \in DOMAIN calls[h] |-> calls[h][i].is_valid] = <<TRUE, FALSE, FALSE, TRUE>>
        /\ [i \in DOMAIN calls[h] |-> calls[h][i].consecutive_failures] = <<0, 1, 2, 0>>
        /\ histories[h].consecutive_failures = 0
        /\ histories[h].total_audits = 4
\* ----------------------------------------------------------------- C17
\* C17 as stated: every step that changes any field of the AuditConfig, the
\* running totals included, is taken by config.admin.
C17_OnlyAdminMutates ==
    [][config' # config => tx'.sender = config.admin]_vars

\* C17, amended: every step that changes min_challenge_count,
\* max_challenge_count, challenge_interval_ms or authorized_auditors is a
\* committed authorize_auditor, revoke_auditor or update_audit_params sent by
\* config.admin; these three sent by anyone else abort with E_UNAUTHORIZED
\* and leave the config as it was; admin and total_blobs_audited never
\* change; total_audits changes only in a committed submit_audit_record,
\* whose sender is an authorized auditor and need not be the admin.
C17_AdminOnlySettings ==
    [][/\ (\/ config'.min_challenge_count # config.min_challenge_count
           \/ config'.max_challenge_count # config.max_challenge_count
           \/ config'.challenge_interval_ms # config.challenge_interval_ms
           \/ config'.authorized_auditors # config.authorized_auditors)
            => /\ tx'.op \in {"authorize_auditor", "revoke_auditor", "update_audit_params"}
               /\ tx'.abort = 0
               /\ tx'.sender = config.admin
       /\ (/\ tx'.op \in {"authorize_auditor", "revoke_auditor", "update_audit_params"}
           /\ tx'.sender # config.admin)
            => (tx'.abort = E_UNAUTHORIZED /\ config' = config)
       /\ config'.admin = config.admin
       /\ config'.total_blobs_audited = config.total_blobs_audited
       /\ config'.total_audits # config.total_audits
            => /\ tx'.op = "submit_audit_record" /\ tx'.abort = 0
               /\ contains(config.authorized_auditors, tx'.sender)]_vars

\* After the auditor a2, who is not the admin, raised total_audits by a
\* submission, a2's authorize_auditor has just aborted with E_UNAUTHORIZED.
C17_Witness ==
    /\ tx.op = "authorize_auditor" /\ tx.sender = "a2" /\ tx.abort = E_UNAUTHORIZED
    /\ config.admin # "a2"
    /\ config.total_audits = 1
    /\ audit_records[1].auditor = "a2"
\* ----------------------------------------------------------------- C18
\* C18: the private key of a session key is obtained only after
\* verifySignature has returned true on that session key: whenever
\* getPrivateKey, reached through the manager the store hands out, has
\* returned the key, a verifySignature call on that manager had returned true.
C18_KeyOnlyAfterVerify ==
    (call.op = "getPrivateKey" /\ is_some(call.ret)) => call.key \in verified

\* ----------------------------------------------------------------- C19
\* C19: signature binding.  verifySignature returns false whenever the claimed
\* address differs from the manager's address, whatever the signature; it
\* returns true only for a signature that parses, is over the manager's sign
\* message and whose signer has the manager's address; a signature on which
\* verifyPersonalMessageSignature throws gives false, so the call always
\* returns a boolean.
C19_SignatureBinding ==
    [][call'.op = "verifySignature" =>
          LET m == managers[call'.key]
              signature == call'.args[1]
              claimed == call'.args[2]
              throws == verifyPersonalMessageSignature(getSignMessage(m), signature).threw
          IN  /\ call'.ret \in BOOLEAN
              /\ claimed # m.address => call'.ret = FALSE
              /\ call'.ret = TRUE
                   => /\ signature.wellFormed
                      /\ signature.message = getSignMessage(m)
                      /\ signature.signer = m.address
                      /\ claimed = m.address
              /\ throws => call'.ret = FALSE]_vars

\* The requester's own signature over the sign message has just been
\* presented with another claimed address, and verifySignature returned false.
C19_Witness ==
    /\ call.op = "verifySignature" /\ call.ret = FALSE
    /\ call.args[2] # managers[call.key].address
    /\ call.args[1].wellFormed
    /\ call.args[1].signer = managers[call.key].address
    /\ call.args[1].message = getSignMessage(managers[call.key])

\* ----------------------------------------------------------------- C20
\* C20: a session key created at createdAt with ttlMin (1440 when omitted) is
\* valid exactly when Date.now() < createdAt + ttlMin * 60000, and isValid
\* returns that.
C20_ValidUntilTtl ==
    \A k \in DOMAIN managers :
        LET ttlMin == IF is_some(requested[k].ttlMin) THEN borrow(requested[k].ttlMin) ELSE 1440
            valid == dateNow < managers[k].createdAt + ttlMin * 60000
        IN  /\ isValid(managers[k], dateNow) = valid
            /\ (call.op = "isValid" /\ call.key = k) => call.ret = valid

\* ----------------------------------------------------------------- C21
\* C21: after destroy, use of the session key is impossible: getPrivateKey
\* and getPublicKey fail, verifySignature returns false for every signature
\* and address, and the key is not reported as a usable credential: isValid
\* is false.
C21_DestroyedUnusable ==
    \A k \in DOMAIN managers :
        ~is_some(managers[k].keypair)
          => /\ getPrivateKey(managers[k]) = none
             /\ getPublicKey(managers[k]) = none
             /\ \A signedKey \in SignedKeyInputs(k), a \in {"a1", "a2"} :
                   ~verifySignature(managers[k], signedKey.signature, a)
             /\ ~isValid(managers[k], dateNow)
             /\ (call.op = "isValid" /\ call.key = k) => call.ret = FALSE
\* ----------------------------------------------------------------- C22
\* C22: store.verify checks existence, then expiry, then the signature.  For
\* a public key not in the store it returns null and changes nothing; for a
\* stored key that has expired it removes the entry and returns null whatever
\* the signature; otherwise it awaits verifySignature of the stored manager
\* for the signature and requester address given, and on resuming returns the
\* manager exactly when that gave true, leaving the store as it is (so after
\* a bad signature or a wrong address the entry is still there for a later
\* call).
C22_VerifyOrder ==
    [][/\ (pending = <<>> /\ call'.op \in {"verify", "verify.await"})
            => LET k == call'.key IN
               IF k \notin store
               THEN /\ call'.op = "verify" /\ call'.ret = none
                    /\ store' = store /\ managers' = managers /\ pending' = <<>>
               ELSE IF ~isValid(managers[k], dateNow)
               THEN /\ call'.op = "verify" /\ call'.ret = none
                    /\ store' = store \ {k} /\ pending' = <<>>
               ELSE /\ call'.op = "verify.await"
                    /\ store' = store /\ managers' = managers
                    /\ pending' # <<>>
                    /\ pending'[1].signedKey.publicKey = k
                    /\ pending'[1].isValidSignature =
                          verifySignature(managers[k], call'.args[1], call'.args[2])
       /\ (pending # <<>> /\ call'.op = "verify")
            => /\ call'.key = pending[1].signedKey.publicKey
               /\ call'.ret = IF pending[1].isValidSignature
                              THEN some(call'.key) ELSE none
               /\ store' = store /\ managers' = managers]_vars

\* store.verify has just been called with the requester's own signature for
\* a key that had expired: it returned null and the entry is gone.
C22_Witness ==
    /\ call.op = "verify" /\ call.ret = none
    /\ call.args[1].wellFormed
    /\ call.args[2] = managers[call.key].address
    /\ call.key \notin store
    /\ ~isValid(managers[call.key], dateNow)
    /\ pending = <<>>
\* ----------------------------------------------------------------- C23
\* C23: store operations are linearizable; in particular, when store.verify
\* returns a manager, that manager is at that moment still in the store, not
\* expired and not destroyed, even if a sweep or a delete of the same key ran
\* while verify was suspended.
C23_VerifiedManagerLive ==
    (call.op = "verify" /\ is_some(call.ret))
      => /\ call.key \in store
         /\ is_some(managers[call.key].keypair)
         /\ isValid(managers[call.key], dateNow)
\* ----------------------------------------------------------------- C24
\* C24: when a sweep (cleanup) has completed, the store holds no entry whose
\* isValid is false, every entry the sweep removed has been destroyed, and
\* every entry that was valid is still in the store under the same public
\* key with its manager untouched; the sweep adds nothing and leaves the
\* managers outside the store as they were.
C24_SweepFrame ==
    [][call'.op = "cleanup" =>
          /\ \A k \in store' : isValid(managers'[k], dateNow)
          /\ store' \subseteq store
          /\ \A k \in store \ store' : ~is_some(managers'[k].keypair)
          /\ \A k \in store :
                isValid(managers[k], dateNow)
                  => (k \in store' /\ managers'[k] = managers[k])
          /\ \A k \in DOMAIN managers \ store : managers'[k] = managers[k]
          /\ DOMAIN managers' = DOMAIN managers]_vars

\* A sweep has just run: the expired k1 is out of the store and destroyed,
\* the unexpired k2 is still stored with its keypair.
C24_Witness ==
    /\ call.op = "cleanup"
    /\ DOMAIN managers = {"k1", "k2"}
    /\ store = {"k2"}
    /\ ~isValid(managers["k1"], dateNow) /\ ~is_some(managers["k1"].keypair)
    /\ isValid(managers["k2"], dateNow) /\ is_some(managers["k2"].keypair)
\* ----------------------------------------------------------------- C25
\* C25: the decrypt endpoint answers success with a report only in a run
\* where the access lookup affirmatively allowed the requester and the
\* key-server fetch and the Seal decryption both succeeded; a run whose
\* lookup failed or was unavailable, or whose fetch or Seal decryption
\* failed, ends in an error status and carries no report.
C25_NoInsecureDefault ==
    res.op = "decrypt"
      => /\ (res.status = 200 \/ res.success \/ is_some(res.report))
               => /\ res.run.lookup = "allowed"
                  /\ res.run.fetchKeys = "ok"
                  /\ res.run.sealDecrypt = "ok"
         /\ (res.run.lookup \in {"failed", "unavailable"}
             \/ res.run.fetchKeys = "failed"
             \/ res.run.sealDecrypt = "failed")
               => (res.status >= 400 /\ ~is_some(res.report))

\* ----------------------------------------------------------------- C26
\* C26: in the decrypt flow a stored session key on which no signature
\* submission has succeeded is never passed to the key-server fetch and never
\* leads to a success response carrying a report.
C26_SignedBeforeUse ==
    (/\ res.op = "decrypt"
     /\ res.key \in DOMAIN sealSessionKeyStore
     /\ ~is_some(sealSessionKeyStore[res.key].personalMessageSignature))
      => /\ res.run.fetchKeys = "none"
         /\ ~(res.success /\ is_some(res.report))

\* ----------------------------------------------------------------- C27
\* C27: a signature submission or decrypt request whose fields are present
\* is answered 404 when no session key is stored under its address and
\* package, and 401 when the stored key is expired, which also removes the
\* key; a decrypt request for a stored, unexpired key is answered 403
\* exactly when the access lookup denies the requester; existence is checked
\* before expiry and expiry before access (a 404 or 401 run has made no
\* lookup); and a request answered 400, 404, 401 or 403 has not called the
\* key-server fetch or the Seal decryption.
C27_CredentialGating ==
    [][(res'.op \in {"set-signature", "decrypt"})
          => /\ (res'.status # 400) =>
                   LET k == res'.key IN
                   IF k \notin DOMAIN sealSessionKeyStore
                   THEN /\ res'.status = 404
                        /\ sealSessionKeyStore' = sealSessionKeyStore
                        /\ res'.run = NoRun
                   ELSE IF isExpired(sealSessionKeyStore[k], timeMs)
                   THEN /\ res'.status = 401
                        /\ k \notin DOMAIN sealSessionKeyStore'
                        /\ sealSessionKeyStore' = map_delete(sealSessionKeyStore, k)
                        /\ res'.run = NoRun
                   ELSE /\ res'.status \notin {404, 401}
                        /\ k \in DOMAIN sealSessionKeyStore'
                        /\ res'.op = "decrypt"
                             => /\ res'.run.lookup # "none"
                                /\ (res'.status = 403) <=> (res'.run.lookup = "denied")
             /\ (res'.status \in {400, 404, 401, 403})
                   => /\ res'.run.fetchKeys = "none"
                      /\ res'.run.sealDecrypt = "none"
                      /\ ~res'.success
                      /\ ~is_some(res'.report)]_vars

\* A decrypt request for a stored, unexpired key has just been refused with
\* 403 after the lookup denied the requester, without a key-server fetch.
C27_Witness ==
    /\ res.op = "decrypt"
    /\ res.status = 403
    /\ res.key \in DOMAIN sealSessionKeyStore
    /\ ~isExpired(sealSessionKeyStore[res.key], timeMs)
    /\ res.run = Run("denied", "none", "none")
\* ----------------------------------------------------------------- C28
\* C28: the authorization message of a session key joins the package P and
\* the ttl T passed to create (1440 when omitted), the creation instant C and
\* the ephemeral public key K; getSignMessage gives that message on every
\* call during the key's life, create returns it, and verifySignature accepts
\* only signatures over it.
C28_CanonicalMessage ==
    \A k \in DOMAIN managers :
        LET T == IF is_some(requested[k].ttlMin) THEN borrow(requested[k].ttlMin) ELSE 1440
            canonical == [packageId |-> requested[k].packageId, ttlMin |-> T,
                          createdAt |-> managers[k].createdAt, publicKey |-> k]
        IN  is_some(managers[k].keypair)
              => /\ getSignMessage(managers[k]) = canonical
                 /\ (call.op = "create" /\ call.key = k) => call.ret.message = canonical
                 /\ (call.op = "verifySignature" /\ call.key = k /\ call.ret = TRUE)
                       => call.args[1].message = canonical
\* ----------------------------------------------------------------- C29
\* The u256 whose value is the sum over i of bytes[i] * 256^i (i from 0),
\* limb by limb: limb k holds bytes 2k-2 and 2k-1.
le_value(bytes) ==
    [k \in 1..16 |->
        (IF 2 * k - 1 <= Len(bytes) THEN bytes[2 * k - 1] ELSE 0)
        + 256 * (IF 2 * k <= Len(bytes) THEN bytes[2 * k] ELSE 0)]

\* C29: bytes_to_u256 of a vector of at most 32 bytes returns the sum over i
\* of bytes[i] * 256^i, byte 0 least significant, without an arithmetic
\* abort; [0x01, 0x02] gives 0x0201 and [0xFF, 0x00, 0x00, 0x01] gives
\* 0x010000FF; a vector of more than 32 bytes aborts with
\* E_INVALID_ACCESS_TYPE.
C29_LittleEndianDecode ==
    /\ codec.op = "bytes_to_u256"
         => IF Len(codec.bytes) <= 32
            THEN codec.abort = 0 /\ codec.value = le_value(codec.bytes)
            ELSE codec.abort = E_INVALID_ACCESS_TYPE
    /\ bytes_to_u256(<<1, 2>>) = [abort |-> 0, value |-> u256(513)]
    /\ bytes_to_u256(<<255, 0, 0, 1>>) = [abort |-> 0, value |-> u256(16777471)]

\* bytes_to_u256 has just decoded 32 bytes of 0xFF, the largest u256.
C29_Witness ==
    /\ codec.op = "bytes_to_u256"
    /\ Len(codec.bytes) = 32
    /\ \A i \in 1..32 : codec.bytes[i] = 255
    /\ codec.abort = 0
    /\ \A k \in 1..16 : codec.value[k] = 65535

\* ----------------------------------------------------------------- C30
\* The first len bytes of the little-endian encoding of a u256.
le_bytes(value, len) ==
    [i \in 1..len |->
        (value[(i - 1) \div 2 + 1] \div (IF (i - 1) % 2 = 0 THEN 1 ELSE 256)) % 256]

\* The u256 a string of 64 hex digits denotes: limb k holds the k-th group
\* of four digits from the right.
hex_value(hex) ==
    [k \in 1..16 |->
        4096 * hex[65 - 4 * k] + 256 * hex[66 - 4 * k]
        + 16 * hex[67 - 4 * k] + hex[68 - 4 * k]]

\* The 64 digits of an object id of 64 hex digits with or without 0x.
hex_digits(address) ==
    IF Len(address) = 66 THEN SubSeq(address, 3, 66) ELSE address

\* The string is 64 hex digits, or 0x and 64 hex digits.
is_object_id(address) ==
    \/ Len(address) = 64 /\ \A i \in 1..64 : address[i] <= 15
    \/ /\ Len(address) = 66 /\ address[1] = 0 /\ address[2] = CharX
       /\ \A i \in 3..66 : address[i] <= 15

\* C30: for bytes of length at most 32, the little-endian encoding of
\* bytes_to_u256(bytes), cut or zero-padded to the length of bytes, is bytes
\* again; and for an object id h of 64 hex digits addressToBytesLE gives 32
\* bytes that bytes_to_u256 decodes to the number h denotes, so that
\* seal_approve called with them by the creator passes the report id check
\* of a policy exactly when the policy's report id is that number.
C30_RoundTrip ==
    /\ (codec.op = "bytes_to_u256" /\ Len(codec.bytes) <= 32)
         => /\ codec.abort = 0
            /\ le_bytes(codec.value, Len(codec.bytes)) = codec.bytes
    /\ (codec.op = "addressToBytesLE" /\ is_object_id(codec.address))
         => /\ ~codec.threw
            /\ Len(codec.bytes) = 32
            /\ codec.abort = 0
            /\ codec.value = hex_value(hex_digits(codec.address))
            /\ le_bytes(codec.value, 32) = codec.bytes
            /\ \A rid \in ReportIdInputs \cup {u256(15), hex_value([i \in 1..64 |-> 15])} :
                  (seal_approve(codec.bytes,
                                create_policy(rid, <<>>, <<>>, none, "a1", 0), "a1") = 0)
                    <=> (rid = hex_value(hex_digits(codec.address)))

\* A proof has just been built for the object id 0x00...0201 and seal_approve
\* decoded its bytes to the report id 0x0201 of the policies.
C30_Witness ==
    /\ codec.op = "addressToBytesLE"
    /\ is_object_id(codec.address)
    /\ ~codec.threw
    /\ codec.bytes[1] = 1 /\ codec.bytes[2] = 2
    /\ codec.value \in ReportIdInputs
\* ----------------------------------------------------------------- C31
\* C31: in every reachable state, if check_access(policy, a, kind, now) is
\* true for some kind, then seal_approve called by a with the little-endian
\* bytes of the policy's report id (with or without a zero high byte) does
\* not abort.
C31_Stage2ImpliesStage1 ==
    \A p \in DOMAIN policies, a \in Addr :
        (\E kind \in AccessTypeInputs : check_access(policies[p], a, kind, now))
          => \A n \in {2, 3} :
                seal_approve(le_bytes(policies[p].report_blob_id, n), policies[p], a) = 0

\* check_access has just returned true to a2, who is not the creator and is
\* an admin by grant only, and seal_approve with the report id lets a2
\* through.
C31_Witness ==
    /\ last.op = "check_access" /\ last.sender = "a2" /\ last.ret
    /\ last.kind = ACCESS_ADMIN
    /\ \E p \in DOMAIN policies :
          /\ policies[p].creator # "a2"
          /\ ~contains(policies[p].allowed_readers, "a2")
          /\ check_access(policies[p], "a2", ACCESS_ADMIN, now)
          /\ seal_approve(<<1, 2>>, policies[p], "a2") = 0
\* ----------------------------------------------------------------- C32
\* C32: after a committed remove_access(policy, target, kind) with target
\* different from the creator, target is not in the list of kind and
\* check_access(policy, target, kind, now) is false, while the other two
\* lists are as they were; for every policy create_policy can make,
\* including one whose initial lists name an address more than once.
C32_RemovedIsOut ==
    [][\A p \in DOMAIN policies :
          (/\ last'.op = "remove_access" /\ last'.abort = 0
           /\ last'.kind \in {ACCESS_READ, ACCESS_AUDIT, ACCESS_ADMIN}
           /\ last'.target # policies[p].creator)
            => /\ ~contains(list_of(policies'[p], last'.kind), last'.target)
               /\ ~check_access(policies'[p], last'.target, last'.kind, now')
               /\ \A k \in {ACCESS_READ, ACCESS_AUDIT, ACCESS_ADMIN} \ {last'.kind} :
                     list_of(policies'[p], k) = list_of(policies[p], k)]_vars

\* C33: after a revoke_auditor(a) by the admin that commits, a is not
\* authorized: is_auditor_authorized(config, a) is false and every
\* submit_audit_record by a aborts with E_UNAUTHORIZED, and a stays
\* unauthorized until a later authorize_auditor(a) commits, whatever
\* authorize_auditor calls came before, repeated ones included.
C33_RevokedIsOut ==
    [][/\ (tx'.op = "revoke_auditor" /\ tx'.abort = 0)
          => /\ ~is_auditor_authorized(config', tx'.args[1])
             /\ \A t \in TotalInputs, sv \in SuccessInputs, a \in AlgorithmInputs :
                   submit_audit_record(config', 7, 1, t, sv, a, tx'.args[1], now').abort
                     = E_UNAUTHORIZED
       /\ \A a \in AuditorInputs :
             (/\ ~is_auditor_authorized(config, a)
              /\ ~(tx'.op = "authorize_auditor" /\ tx'.abort = 0 /\ tx'.args[1] = a))
               => ~is_auditor_authorized(config', a)]_vars

\* C34: every stored AuditRecord has successful_verifications <=
\* total_challenges and failed_verifications + successful_verifications =
\* total_challenges; a submit_audit_record with successful_verifications >
\* total_challenges aborts (on the u16 subtraction when the three asserts
\* before it pass), creates no record and leaves config.total_audits as it was.
C34_RecordCountsAddUp ==
    [][/\ \A i \in DOMAIN audit_records' :
             /\ audit_records'[i].successful_verifications
                  <= audit_records'[i].total_challenges
             /\ audit_records'[i].failed_verifications
                  + audit_records'[i].successful_verifications
                  = audit_records'[i].total_challenges
       /\ (tx'.op = "submit_audit_record" /\ tx'.args[2] > tx'.args[1])
            => /\ tx'.abort # 0
               /\ (/\ is_auditor_authorized(config, tx'.sender)
                   /\ tx'.args[1] >= config.min_challenge_count
                   /\ tx'.args[1] <= config.max_challenge_count
                   /\ tx'.args[3] \in {ALGO_FALCON512, ALGO_DILITHIUM2})
                    => tx'.abort = ARITHMETIC_ERROR
               /\ audit_records' = audit_records
               /\ config'.total_audits = config.total_audits]_vars

C34_Witness ==
    /\ Len(audit_records) >= 1
    /\ tx.op = "submit_audit_record"
    /\ tx.args[2] > tx.args[1]
    /\ tx.abort = ARITHMETIC_ERROR
\* C35: in every configuration update_audit_params can leave, a
\* submit_audit_record by an authorized auditor with total_challenges in
\* [min, max], a recognised algorithm and successful <= total commits: the
\* u16 product total_challenges * 95 never overflows.
C35_ThresholdNeverOverflows ==
    [][(/\ tx'.op = "submit_audit_record"
        /\ is_auditor_authorized(config, tx'.sender)
        /\ tx'.args[1] >= config.min_challenge_count
        /\ tx'.args[1] <= config.max_challenge_count
        /\ tx'.args[3] \in {ALGO_FALCON512, ALGO_DILITHIUM2}
        /\ tx'.args[2] <= tx'.args[1])
          => tx'.abort = 0]_vars
\* C36: after a committed transfer_token(token, recipient) sent by the
\* token's owner, the holder field is the recipient and equals the owner; the
\* recipient can transfer the token onward and the previous holder, when it
\* is another address, cannot.
C36_HolderFollowsOwner ==
    [][\A t \in DOMAIN tokens :
          (/\ last'.op = "transfer_token" /\ last'.kind = t /\ last'.abort = 0
           /\ last'.sender = tokens[t].owner)
            => /\ tokens'[t].holder = last'.target
               /\ tokens'[t].holder = tokens'[t].owner
               /\ \A r \in Addr :
                    /\ transfer_token(tokens'[t], r, last'.target).abort = 0
                    /\ last'.sender # last'.target
                         => transfer_token(tokens'[t], r, last'.sender).abort # 0]_vars
\* C37: a policy's total_accesses is the number of success = true records in
\* the AccessLog created for that policy, and last_accessed_at is set iff
\* total_accesses > 0, whatever policy and log the log_access calls paired.
C37_LogMatchesPolicy ==
    \A p \in DOMAIN policies :
        /\ \A l \in DOMAIN logs :
              logs[l].policy_id = p
                => policies[p].total_accesses
                     = Cardinality({i \in DOMAIN logs[l].access_records :
                                      logs[l].access_records[i].success})
        /\ is_some(policies[p].last_accessed_at) <=> policies[p].total_accesses > 0
\* C38: in every reachable state a BlobAuditHistory lists only ids of
\* AuditRecords that submit_audit_record created for the same blob, each at
\* most once, and its consecutive_failures is the length of the trailing run
\* of those records whose stored is_valid is false.
C38_HistoryOnlyRealAudits ==
    \A h \in DOMAIN histories :
        LET ids == histories[h].audit_records IN
        /\ \A i \in DOMAIN ids :
              /\ ids[i] \in DOMAIN audit_records
              /\ audit_records[ids[i]].blob_id = histories[h].blob_id
        /\ \A i, j \in DOMAIN ids : i # j => ids[i] # ids[j]
        /\ histories[h].consecutive_failures
             = trailing_invalid([i \in DOMAIN ids |->
                                   [is_valid |-> audit_records[ids[i]].is_valid]])
\* C39: every session key that has left the SessionKeyStore has been
\* destroyed: in every reachable state a manager that is no longer in the
\* store no longer holds its keypair.
C39_LeftStoreIsDestroyed ==
    \A k \in DOMAIN managers \ store : ~is_some(managers[k].keypair)
\* C40: with the sweep timer weakly fair, a session key that is in the store
\* after its expiresAt has passed is eventually out of the store and
\* destroyed, unless stop() has cleared the timer; and a sweep never removes
\* a key that has not expired.
C40_SweepEventuallyDestroys ==
    /\ \A k \in PublicKeys :
          (k \in store /\ ~isValid(managers[k], dateNow))
            ~> (\/ ~cleanupInterval
                \/ /\ k \in DOMAIN managers
                   /\ k \notin store
                   /\ ~is_some(managers[k].keypair))
    /\ [][call'.op = "cleanup"
            => \A k \in store \ store' : ~isValid(managers[k], dateNow)]_vars
====
